---- MODULE Spec2Model ----
(***************************************************************************)
(* Launch monitor: the IR trigger state machine (TriggerManager) and the   *)
(* radar measurement coordinator (RadarManager) with its process-wide      *)
(* FFTW resources, background measurement threads and cleanup.             *)
(*                                                                         *)
(* TriggerSpec: the calls of TriggerManager in any order.                  *)
(* RadarSpec: the calls of RadarManager by one foreground thread in any    *)
(* order, beside the background threads of startMeasurement().             *)
(* MainSpec: main(), whose trigger callback calls startMeasurement().      *)
(*                                                                         *)
(* Time is std::chrono::steady_clock in milliseconds.                      *)
(***************************************************************************)
EXTENDS Integers, Sequences, FiniteSets, TLC

(***************************************************************************)
(* Bounds of the model.                                                    *)
(***************************************************************************)
\* the steady clock is followed up to this many milliseconds
MaxTime == 1250
\* update() calls since the last callback are counted up to this number
MaxUpdates == 3
\* background measurement threads that exist at the same time
MaxPipelines == 2
\* startMeasurement() calls and trigger callbacks that are counted
MaxStarts == 2

(***************************************************************************)
(* Program constants.                                                      *)
(***************************************************************************)
\* TriggerManager::cooldownPeriod, std::chrono::milliseconds{500}
cooldownPeriod == 500
\* constexpr int DEFAULT_SAMPLE_COUNT
DEFAULT_SAMPLE_COUNT == 1024

\* amounts by which the steady clock advances between two calls: together
\* they reach elapsed times of 498, 499 and 500 ms after a trigger
ClockSteps == {249, 250}

\* TriggerManager::TriggerState
TriggerState == {"IDLE", "TRIGGERED", "COOLDOWN"}

\* what gpiod_line_get_value returns: 0, 1, or -1 on error
GpioValues == {-1, 0, 1}

\* how TriggerManager::init ends: all three gpiod calls succeeded, or the
\* first, second or third of them failed
InitOutcomes == {"ok", "no_chip", "no_line", "no_request"}

VARIABLES
    \* ---- TriggerManager ----
    state,              \* TriggerState state
    lastTriggerTime,    \* time_point lastTriggerTime
    chip,               \* gpiod_chip* chip is non-null
    line,               \* gpiod_line* line is non-null
    triggerCallback,    \* std::function triggerCallback holds a target
    \* ---- environment ----
    now,                \* std::chrono::steady_clock::now()
    \* ---- what the most recent TriggerManager call did ----
    opResult,           \* [callbackCalls, pinReads, errorLogged, raised]
    \* ---- what the registered trigger callback has observed ----
    cbLog,              \* timestamps passed to its last two invocations
    fired,              \* its invocations so far (up to MaxStarts)
    gapUpdates,         \* update() calls between those two (capped)
    gapInactive,        \* a readDigitalPin() returned false between them
    updatesSinceCb,     \* update() calls since the last invocation (capped)
    inactiveSinceCb,    \* a readDigitalPin() returned false since then
    cooldownEntry,      \* time of the update() that entered COOLDOWN
    simUsed,            \* simulateTrigger() has been called
    \* ---- RadarManager: static FFTW resources ----
    fftw_initialized,   \* static bool fftw_initialized
    fftw_in,            \* static double* fftw_in: "null", "live" or "freed"
    fftw_out,           \* static fftw_complex* fftw_out, likewise
    fftw_plan_r2c,      \* static fftw_plan fftw_plan_r2c, likewise
    \* ---- RadarManager: instance ----
    fftw_mutex,         \* std::mutex: the set of its holders (thread ids)
    measurement_in_progress,    \* std::atomic<bool>
    measurementCallback,        \* std::function holds a target
    \* ---- threads ----
    mainPc,             \* where the foreground thread is
    thr,                \* per background thread: where it is, its result,
                        \*   whether the callback received it
    \* ---- memory errors seen so far ----
    faults,
    \* ---- what the buffers hold and what the calls did ----
    inData,             \* whose samples fftw_in[] holds (0: nobody's)
    outData,            \* whose spectrum fftw_out[] holds (0: nobody's)
    started,            \* startMeasurement() calls so far
    invoked,            \* invocations of the callback by background threads
    skipped,            \* measurements that went by without an invocation
    mainResult,         \* what the foreground's last init() or
                        \*   processSamples() call gave
    \* ---- RadarManager::startDebugMeasurement ----
    debug,              \* what the most recent call has done so far
    \* ---- the computations of RadarManager, taken alone ----
    calc,               \* the most recent one: what was computed, from
                        \*   which input, with which result
    \* ---- Logger ----
    currentLogLevel,    \* static LogLevel currentLogLevel
    outputStream,       \* static std::ostream* outputStream points to
    cout,               \* the lines written to std::cout (their levels)
    testStream,         \* the lines written to the stream of a test
    logged,             \* the calls of info(), debug() and error() made:
                        \*   level, message, and the threshold and the
                        \*   configured stream at the time of the call
    \* ---- the shots of main() ----
    shotHistory,        \* std::vector<ShotData> shotHistory
    shotCount,          \* std::atomic<int> shotCount
    pushing,            \* per thread inside shotHistory.push_back(): the
                        \*   end of the vector it has read (else -1)
    \* ---- a second RadarManager: the TestRadarManager of a test ----
    testManager_mutex   \* the holders of its member fftw_mutex

trigState == <<state, lastTriggerTime, chip, line, triggerCallback>>
trigObs == <<opResult, cbLog, fired, gapUpdates, gapInactive, updatesSinceCb,
             inactiveSinceCb, cooldownEntry, simUsed>>
trigVars == <<trigState, now, trigObs>>

fftwVars == <<fftw_initialized, fftw_in, fftw_out, fftw_plan_r2c>>
callVars ==
    <<inData, outData, started, invoked, skipped, mainResult>>
radarVars == <<fftwVars, fftw_mutex, measurement_in_progress,
               measurementCallback, mainPc, thr, faults, callVars>>

logVars == <<currentLogLevel, outputStream, cout, testStream, logged>>
libVars == <<calc, logVars>>
shotVars == <<shotHistory, shotCount, pushing>>
instVars == <<testManager_mutex>>
otherVars == <<debug, libVars, shotVars, instVars>>
vars == <<trigVars, radarVars, otherVars>>

(***************************************************************************)
(* TriggerManager                                                          *)
(***************************************************************************)

\* what one call did: how often it invoked the trigger callback, how often
\* it read the pin, whether it logged an error, and whether an exception
\* left it
OpResult(calls, reads, err, exc) ==
    [callbackCalls |-> calls, pinReads |-> reads, errorLogged |-> err,
     raised |-> exc]

\* the trigger callback as the tests register it: it records its argument
InvokeTriggerCallback(ts) ==
    /\ cbLog' = IF Len(cbLog) < 2 THEN Append(cbLog, ts)
                                  ELSE <<cbLog[2], ts>>
    /\ fired' = IF fired < MaxStarts THEN fired + 1 ELSE fired
    /\ gapUpdates' = updatesSinceCb
    /\ gapInactive' = inactiveSinceCb
    /\ updatesSinceCb' = 0
    /\ inactiveSinceCb' = FALSE

\* one more update() call that did not invoke the callback
CountUpdate ==
    updatesSinceCb' = IF updatesSinceCb < MaxUpdates THEN updatesSinceCb + 1
                                                       ELSE updatesSinceCb

\* (mutant) the pin is read active-low
readDigitalPin_inverted(v) ==
    IF ~line THEN [ret |-> FALSE, err |-> TRUE, exc |-> FALSE]
    ELSE IF v < 0 THEN [ret |-> FALSE, err |-> TRUE, exc |-> FALSE]
    ELSE [ret |-> (v = 0), err |-> FALSE, exc |-> FALSE]

\* (mutant) the failed read is thrown but not caught
readDigitalPin_uncaught(v) ==
    IF ~line THEN [ret |-> FALSE, err |-> TRUE, exc |-> FALSE]
    ELSE IF v < 0 THEN [ret |-> FALSE, err |-> FALSE, exc |-> TRUE]
    ELSE [ret |-> (v = 1), err |-> FALSE, exc |-> FALSE]

\* TriggerManager::readDigitalPin while the line would read v: the value it
\* returns, whether it logged an error and whether an exception leaves it.
\* A missing line returns false; a failed read throws, and the throw is
\* caught inside and turned into false.
readDigitalPin(v) ==
    IF ~line THEN [ret |-> FALSE, err |-> TRUE, exc |-> FALSE]
    ELSE IF v < 0 THEN [ret |-> FALSE, err |-> TRUE, exc |-> FALSE]
    ELSE [ret |-> (v = 1), err |-> FALSE, exc |-> FALSE]

\* TriggerManager::cleanup
TriggerManager_cleanup ==
    /\ line' = FALSE
    /\ chip' = FALSE
    /\ opResult' = OpResult(0, 0, FALSE, FALSE)
    /\ UNCHANGED <<state, lastTriggerTime, triggerCallback, now, cbLog, fired,
                   gapUpdates, gapInactive, updatesSinceCb, inactiveSinceCb,
                   cooldownEntry, simUsed>>
    /\ UNCHANGED radarVars
    /\ UNCHANGED otherVars

\* TriggerManager::init: a failure of any of the three gpiod calls is
\* caught, logged and followed by cleanup(), which releases line and chip
TriggerManager_init(outcome) ==
    /\ line' = (outcome = "ok")
    /\ chip' = (outcome = "ok")
    /\ opResult' = OpResult(0, 0, outcome # "ok", FALSE)
    /\ UNCHANGED <<state, lastTriggerTime, triggerCallback, now, cbLog, fired,
                   gapUpdates, gapInactive, updatesSinceCb, inactiveSinceCb,
                   cooldownEntry, simUsed>>
    /\ UNCHANGED radarVars
    /\ UNCHANGED otherVars

\* TriggerManager::setTriggerCallback
setTriggerCallback ==
    /\ triggerCallback' = TRUE
    /\ opResult' = OpResult(0, 0, FALSE, FALSE)
    /\ UNCHANGED <<state, lastTriggerTime, chip, line, now, cbLog, fired,
                   gapUpdates, gapInactive, updatesSinceCb, inactiveSinceCb,
                   cooldownEntry, simUsed>>
    /\ UNCHANGED radarVars
    /\ UNCHANGED otherVars

\* case TriggerState::IDLE of update(): r is what readDigitalPin() did,
\* fire whether the branch "if (readDigitalPin())" is taken, and ts the
\* timestamp handed to the callback
updateIdleCase(r, fire, ts) ==
    /\ state = "IDLE"
    /\ IF r.exc
       THEN \* the exception leaves update() before anything is assigned
            /\ opResult' = OpResult(0, 1, r.err, TRUE)
            /\ CountUpdate
            /\ UNCHANGED <<state, lastTriggerTime, cbLog, fired, gapUpdates,
                           gapInactive, inactiveSinceCb>>
       ELSE IF fire
       THEN /\ state' = "TRIGGERED"
            /\ lastTriggerTime' = now
            /\ IF triggerCallback
               THEN /\ InvokeTriggerCallback(ts)
                    /\ opResult' = OpResult(1, 1, r.err, FALSE)
               ELSE /\ opResult' = OpResult(0, 1, r.err, FALSE)
                    /\ CountUpdate
                    /\ UNCHANGED <<cbLog, fired, gapUpdates, gapInactive,
                                   inactiveSinceCb>>
       ELSE /\ opResult' = OpResult(0, 1, r.err, FALSE)
            /\ inactiveSinceCb' = (inactiveSinceCb \/ ~r.ret)
            /\ CountUpdate
            /\ UNCHANGED <<state, lastTriggerTime, cbLog, fired, gapUpdates,
                           gapInactive>>
    /\ UNCHANGED cooldownEntry

\* (mutant) the callback is invoked before the timestamp is recorded
updateIdle_staleStamp(v) ==
    LET r == readDigitalPin(v) IN updateIdleCase(r, r.ret, lastTriggerTime)

\* (mutant) edge-triggered: an active read fires only after an inactive one
updateIdle_edge(v) ==
    LET r == readDigitalPin(v) IN
    updateIdleCase(r, r.ret /\ (inactiveSinceCb \/ cbLog = <<>>),
                   lastTriggerTime')

\* case TriggerState::IDLE of update(), the line reading v
updateIdle(v) ==
    LET r == readDigitalPin(v) IN updateIdleCase(r, r.ret, lastTriggerTime')

\* (mutant) TRIGGERED falls straight back to IDLE
updateTriggered_toIdle ==
    /\ state = "TRIGGERED"
    /\ state' = "IDLE"
    /\ cooldownEntry' = now
    /\ opResult' = OpResult(0, 0, FALSE, FALSE)
    /\ CountUpdate
    /\ UNCHANGED <<lastTriggerTime, cbLog, fired, gapUpdates, gapInactive,
                   inactiveSinceCb>>

\* case TriggerState::TRIGGERED of update(): the pin is not read
updateTriggered ==
    /\ state = "TRIGGERED"
    /\ state' = "COOLDOWN"
    /\ cooldownEntry' = now
    /\ opResult' = OpResult(0, 0, FALSE, FALSE)
    /\ CountUpdate
    /\ UNCHANGED <<lastTriggerTime, cbLog, fired, gapUpdates, gapInactive,
                   inactiveSinceCb>>

\* case TriggerState::COOLDOWN of update(), the cooldown counted from the
\* time since: the pin is not read
updateCooldownSince(since) ==
    /\ state = "COOLDOWN"
    /\ state' = IF now - since >= cooldownPeriod THEN "IDLE" ELSE "COOLDOWN"
    /\ opResult' = OpResult(0, 0, FALSE, FALSE)
    /\ CountUpdate
    /\ UNCHANGED <<lastTriggerTime, cbLog, fired, gapUpdates, gapInactive,
                   inactiveSinceCb, cooldownEntry>>

\* (mutant) the cooldown is counted from the entry into COOLDOWN
updateCooldown_fromEntry == updateCooldownSince(cooldownEntry)

\* (mutant) the cooldown is half as long
updateCooldown_short == updateCooldownSince(lastTriggerTime - 250)

\* case TriggerState::COOLDOWN of update()
updateCooldown == updateCooldownSince(lastTriggerTime)

\* TriggerManager::update while the line would read v
update(v) ==
    /\ \/ updateIdle(v)
       \/ updateTriggered
       \/ updateCooldown
    /\ UNCHANGED <<chip, line, triggerCallback, now, simUsed>>
    /\ UNCHANGED radarVars
    /\ UNCHANGED otherVars

\* (mutant) simulateTrigger() leaves the timestamp of the earlier trigger
simulateTrigger_keepsStamp ==
    /\ UNCHANGED lastTriggerTime
    /\ state' = "TRIGGERED"
    /\ IF triggerCallback
       THEN /\ InvokeTriggerCallback(now)
            /\ opResult' = OpResult(1, 0, FALSE, FALSE)
       ELSE /\ opResult' = OpResult(0, 0, FALSE, FALSE)
            /\ UNCHANGED <<cbLog, fired, gapUpdates, gapInactive,
                           updatesSinceCb, inactiveSinceCb>>
    /\ simUsed' = TRUE
    /\ UNCHANGED <<chip, line, triggerCallback, now, cooldownEntry>>
    /\ UNCHANGED radarVars
    /\ UNCHANGED otherVars

\* (mutant) simulateTrigger() acts only on an idle machine
simulateTrigger_idleOnly ==
    /\ IF state = "IDLE"
       THEN /\ lastTriggerTime' = now
            /\ state' = "TRIGGERED"
            /\ IF triggerCallback
               THEN /\ InvokeTriggerCallback(lastTriggerTime')
                    /\ opResult' = OpResult(1, 0, FALSE, FALSE)
               ELSE /\ opResult' = OpResult(0, 0, FALSE, FALSE)
                    /\ UNCHANGED <<cbLog, fired, gapUpdates, gapInactive,
                                   updatesSinceCb, inactiveSinceCb>>
       ELSE /\ opResult' = OpResult(0, 0, FALSE, FALSE)
            /\ UNCHANGED <<state, lastTriggerTime, cbLog, fired, gapUpdates,
                           gapInactive, updatesSinceCb, inactiveSinceCb>>
    /\ simUsed' = TRUE
    /\ UNCHANGED <<chip, line, triggerCallback, now, cooldownEntry>>
    /\ UNCHANGED radarVars
    /\ UNCHANGED otherVars

\* TriggerManager::simulateTrigger
simulateTrigger ==
    /\ lastTriggerTime' = now
    /\ state' = "TRIGGERED"
    /\ IF triggerCallback
       THEN /\ InvokeTriggerCallback(lastTriggerTime')
            /\ opResult' = OpResult(1, 0, FALSE, FALSE)
       ELSE /\ opResult' = OpResult(0, 0, FALSE, FALSE)
            /\ UNCHANGED <<cbLog, fired, gapUpdates, gapInactive,
                           updatesSinceCb, inactiveSinceCb>>
    /\ simUsed' = TRUE
    /\ UNCHANGED <<chip, line, triggerCallback, now, cooldownEntry>>
    /\ UNCHANGED radarVars
    /\ UNCHANGED otherVars

\* the steady clock advances between two calls
Tick(d) ==
    /\ now + d <= MaxTime
    /\ now' = now + d
    /\ UNCHANGED <<trigState, trigObs>>
    /\ UNCHANGED radarVars
    /\ UNCHANGED otherVars

\* a TriggerManager after construction (member initialisers), with nothing
\* observed yet
TriggerInit ==
    /\ state = "IDLE"
    /\ lastTriggerTime = 0
    /\ chip = FALSE
    /\ line = FALSE
    /\ triggerCallback = FALSE
    /\ now = 0
    /\ opResult = OpResult(0, 0, FALSE, FALSE)
    /\ cbLog = <<>>
    /\ fired = 0
    /\ gapUpdates = 0
    /\ gapInactive = FALSE
    /\ updatesSinceCb = 0
    /\ inactiveSinceCb = FALSE
    /\ cooldownEntry = 0
    /\ simUsed = FALSE

TriggerNext ==
    \/ \E o \in InitOutcomes : TriggerManager_init(o)
    \/ TriggerManager_cleanup
    \/ setTriggerCallback
    \/ \E v \in GpioValues : update(v)
    \/ simulateTrigger
    \/ \E d \in ClockSteps : Tick(d)

(***************************************************************************)
(* RadarManager.  The foreground thread (thread id 0) makes the calls      *)
(* init(), cleanup(), setMeasurementCallback() and startMeasurement() one  *)
(* after another; every startMeasurement() detaches a background thread    *)
(* (thread ids 1..MaxPipelines).  A step is one access to shared state.    *)
(* The static FFTW handles and fftw_initialized are read by background     *)
(* threads only after they locked fftw_mutex, and fftw_initialized is      *)
(* read first and written last, so the accesses are taken in program       *)
(* order.                                                                  *)
(***************************************************************************)

Pipelines == 1..MaxPipelines

\* states of a handle: never set or reset to nullptr, pointing to a live
\* allocation, pointing to a freed one
HandleStates == {"null", "live", "freed"}

\* how the hardware part of init() ends: bcm2835_init and bcm2835_spi_begin
\* succeeded, or one of them failed
HwOutcomes == {"ok", "no_bcm", "no_spi"}

\* the thread exists and has not yet run to its end
Running(t) == thr[t].pc \notin {"unborn", "done"}

\* the thread is in processSamples() between taking and releasing the lock
InCritical(t) == thr[t].pc \in {"check", "dc", "exec", "scan"}

\* the thread is in the part of processSamples() that works on the buffers:
\* from the DC removal to the end of the scan
InTransform(t) == thr[t].pc \in {"dc", "exec", "scan"}

\* a thread at pc that runs the measurement number id: it has no result
\* (result, and of: whose spectrum the result was read from), the callback
\* was not invoked (delivered, and carried: the result it received), and
\* no exception was thrown (threw: "read", "process" or "callback")
NewThread(pc, id) ==
    [pc |-> pc, id |-> id, result |-> "none", of |-> 0,
     delivered |-> FALSE, carried |-> <<>>, threw |-> "none"]

\* the thread's slot to use for the next detached thread
FreeSlots == {t \in Pipelines : ~Running(t)}
NextSlot == CHOOSE t \in FreeSlots : \A u \in FreeSlots : t <= u

\* the faults of reading, writing or executing through the handles hs
UseFaults(hs) == IF \E h \in hs : h # "live" THEN {"use_after_free"} ELSE {}

\* the faults of fftw_free / fftw_destroy_plan on a non-null handle h
FreeFaults(h) ==
    (IF h = "freed" THEN {"double_free"} ELSE {})
    \cup (IF \E t \in Pipelines : InTransform(t) THEN {"free_in_use"} ELSE {})

\* ---- RadarManager::init -------------------------------------------------

\* (mutant) init() without the test of fftw_initialized
init_enter_always(hw) ==
    /\ mainPc = "idle"
    /\ mainPc' = IF hw = "ok" THEN "init_in" ELSE "idle"
    /\ mainResult' = IF hw # "ok" THEN "hw_failed" ELSE "none"
    /\ UNCHANGED <<fftwVars, fftw_mutex, measurement_in_progress,
                   measurementCallback, thr, faults>>
    /\ UNCHANGED <<inData, outData, started, invoked, skipped>>
    /\ UNCHANGED trigVars
    /\ UNCHANGED otherVars

\* init(): the hardware part, which returns when bcm2835_init or
\* bcm2835_spi_begin fails, then the test of fftw_initialized, which leaves
\* the resources as they are when it is true
init_enter(hw) ==
    /\ mainPc = "idle"
    /\ mainPc' = IF hw = "ok" /\ ~fftw_initialized THEN "init_in" ELSE "idle"
    /\ mainResult' = IF hw # "ok" THEN "hw_failed"
                     ELSE IF fftw_initialized THEN "kept" ELSE "none"
    /\ UNCHANGED <<fftwVars, fftw_mutex, measurement_in_progress,
                   measurementCallback, thr, faults>>
    /\ UNCHANGED <<inData, outData, started, invoked, skipped>>
    /\ UNCHANGED trigVars
    /\ UNCHANGED otherVars

\* fftw_in = fftw_malloc(...)
init_in ==
    /\ mainPc = "init_in"
    /\ fftw_in' = "live"
    /\ faults' = faults \cup (IF fftw_in = "live" THEN {"leak"} ELSE {})
    /\ inData' = 0
    /\ mainPc' = "init_out"
    /\ UNCHANGED <<fftw_initialized, fftw_out, fftw_plan_r2c, fftw_mutex,
                   measurement_in_progress, measurementCallback, thr>>
    /\ UNCHANGED <<outData, started, invoked, mainResult, skipped>>
    /\ UNCHANGED trigVars
    /\ UNCHANGED otherVars

\* fftw_out = fftw_malloc(...)
init_out ==
    /\ mainPc = "init_out"
    /\ fftw_out' = "live"
    /\ faults' = faults \cup (IF fftw_out = "live" THEN {"leak"} ELSE {})
    /\ outData' = 0
    /\ mainPc' = "init_plan"
    /\ UNCHANGED <<fftw_initialized, fftw_in, fftw_plan_r2c, fftw_mutex,
                   measurement_in_progress, measurementCallback, thr>>
    /\ UNCHANGED <<inData, started, invoked, mainResult, skipped>>
    /\ UNCHANGED trigVars
    /\ UNCHANGED otherVars

\* fftw_plan_r2c = fftw_plan_dft_r2c_1d(...), which may return null
init_plan(ok) ==
    /\ mainPc = "init_plan"
    /\ fftw_plan_r2c' = IF ok THEN "live" ELSE "null"
    /\ faults' = faults \cup (IF fftw_plan_r2c = "live" THEN {"leak"} ELSE {})
    /\ mainPc' = "init_done"
    /\ UNCHANGED <<fftw_initialized, fftw_in, fftw_out, fftw_mutex,
                   measurement_in_progress, measurementCallback, thr>>
    /\ UNCHANGED callVars
    /\ UNCHANGED trigVars
    /\ UNCHANGED otherVars

\* without a plan both buffers are freed (the handles keep their values)
\* and init() returns; with one, fftw_initialized = true
init_done ==
    /\ mainPc = "init_done"
    /\ IF fftw_plan_r2c = "null"
       THEN /\ fftw_in' = "freed"
            /\ fftw_out' = "freed"
            /\ faults' = faults \cup FreeFaults(fftw_in)
                                \cup FreeFaults(fftw_out)
            /\ mainResult' = "plan_failed"
            /\ UNCHANGED fftw_initialized
       ELSE /\ fftw_initialized' = TRUE
            /\ mainResult' = "initialized"
            /\ UNCHANGED <<fftw_in, fftw_out, faults>>
    /\ mainPc' = "idle"
    /\ UNCHANGED <<fftw_plan_r2c, fftw_mutex, measurement_in_progress,
                   measurementCallback, thr>>
    /\ UNCHANGED <<inData, outData, started, invoked, skipped>>
    /\ UNCHANGED trigVars
    /\ UNCHANGED otherVars

\* ---- RadarManager::cleanup ----------------------------------------------

\* cleanup() is called
cleanup_enter ==
    /\ mainPc = "idle"
    /\ mainPc' = "cleanup_spin"
    /\ UNCHANGED <<fftwVars, fftw_mutex, measurement_in_progress,
                   measurementCallback, thr, faults>>
    /\ UNCHANGED callVars
    /\ UNCHANGED trigVars
    /\ UNCHANGED otherVars

\* while (measurement_in_progress.load()) sleep: the loop is left when the
\* flag reads false
cleanup_spin ==
    /\ mainPc = "cleanup_spin"
    /\ ~measurement_in_progress
    /\ mainPc' = "cleanup_lock"
    /\ UNCHANGED <<fftwVars, fftw_mutex, measurement_in_progress,
                   measurementCallback, thr, faults>>
    /\ UNCHANGED callVars
    /\ UNCHANGED trigVars
    /\ UNCHANGED otherVars

\* (mutant) cleanup() goes on without taking the mutex
cleanup_lock_skipped ==
    /\ mainPc = "cleanup_lock"
    /\ mainPc' = "cleanup_free"
    /\ UNCHANGED <<fftwVars, fftw_mutex, measurement_in_progress,
                   measurementCallback, thr, faults>>
    /\ UNCHANGED callVars
    /\ UNCHANGED trigVars
    /\ UNCHANGED otherVars

\* std::lock_guard<std::mutex> lock(fftw_mutex)
cleanup_lock ==
    /\ mainPc = "cleanup_lock"
    /\ fftw_mutex = {}
    /\ fftw_mutex' = {0}
    /\ mainPc' = "cleanup_free"
    /\ UNCHANGED <<fftwVars, measurement_in_progress, measurementCallback,
                   thr, faults>>
    /\ UNCHANGED callVars
    /\ UNCHANGED trigVars
    /\ UNCHANGED otherVars

\* if (fftw_initialized): each non-null handle is released and set to
\* nullptr, then fftw_initialized = false
cleanup_free ==
    /\ mainPc = "cleanup_free"
    /\ IF fftw_initialized
       THEN /\ fftw_plan_r2c' = "null"
            /\ fftw_in' = "null"
            /\ fftw_out' = "null"
            /\ fftw_initialized' = FALSE
            /\ faults' = faults
                 \cup (IF fftw_plan_r2c # "null"
                       THEN FreeFaults(fftw_plan_r2c) ELSE {})
                 \cup (IF fftw_in # "null" THEN FreeFaults(fftw_in) ELSE {})
                 \cup (IF fftw_out # "null" THEN FreeFaults(fftw_out) ELSE {})
       ELSE UNCHANGED <<fftwVars, faults>>
    /\ mainPc' = "cleanup_return"
    /\ UNCHANGED <<fftw_mutex, measurement_in_progress, measurementCallback,
                   thr>>
    /\ UNCHANGED callVars
    /\ UNCHANGED trigVars
    /\ UNCHANGED otherVars

\* the SPI is closed, the lock_guard releases the mutex, cleanup() returns
cleanup_return ==
    /\ mainPc = "cleanup_return"
    /\ fftw_mutex' = fftw_mutex \ {0}
    /\ mainPc' = "idle"
    /\ UNCHANGED <<fftwVars, measurement_in_progress, measurementCallback,
                   thr, faults>>
    /\ UNCHANGED callVars
    /\ UNCHANGED trigVars
    /\ UNCHANGED otherVars

\* ---- RadarManager::setMeasurementCallback -------------------------------

\* the std::function is assigned without synchronisation; its callers
\* (main, the tests' SetUp) register it while no measurement runs

setMeasurementCallback ==
    /\ mainPc = "idle"
    /\ \A t \in Pipelines : ~Running(t)
    /\ measurementCallback' = TRUE
    /\ UNCHANGED <<fftwVars, fftw_mutex, measurement_in_progress, mainPc,
                   thr, faults>>
    /\ UNCHANGED callVars
    /\ UNCHANGED trigVars
    /\ UNCHANGED otherVars

\* ---- RadarManager::startMeasurement -------------------------------------

\* measurement_in_progress.store(true)
\* (mutant) startMeasurement() without the store to the flag
start_store_unflagged ==
    /\ mainPc = "idle"
    /\ FreeSlots # {}
    /\ started < MaxStarts
    /\ started' = started + 1
    /\ mainPc' = "start_spawn"
    /\ UNCHANGED <<fftwVars, fftw_mutex, measurement_in_progress,
                   measurementCallback, thr, faults>>
    /\ UNCHANGED <<inData, outData, invoked, mainResult, skipped>>
    /\ UNCHANGED trigVars
    /\ UNCHANGED otherVars

start_store ==
    /\ mainPc = "idle"
    /\ FreeSlots # {}
    /\ started < MaxStarts
    /\ started' = started + 1
    /\ measurement_in_progress' = TRUE
    /\ mainPc' = "start_spawn"
    /\ UNCHANGED <<fftwVars, fftw_mutex, measurementCallback, thr, faults>>
    /\ UNCHANGED <<inData, outData, invoked, mainResult, skipped>>
    /\ UNCHANGED trigVars
    /\ UNCHANGED otherVars

\* (mutant) startMeasurement() takes fftw_mutex before it spawns the thread
start_spawn_locked ==
    /\ mainPc = "start_spawn"
    /\ fftw_mutex = {}
    /\ thr' = [thr EXCEPT ![NextSlot] = NewThread("read", started)]
    /\ mainPc' = "idle"
    /\ UNCHANGED <<fftwVars, fftw_mutex, measurement_in_progress,
                   measurementCallback, faults>>
    /\ UNCHANGED callVars
    /\ UNCHANGED trigVars
    /\ UNCHANGED otherVars

\* std::thread([this]{...}).detach(), and startMeasurement() returns
start_spawn ==
    /\ mainPc = "start_spawn"
    /\ thr' = [thr EXCEPT ![NextSlot] = NewThread("read", started)]
    /\ mainPc' = "idle"
    /\ UNCHANGED <<fftwVars, fftw_mutex, measurement_in_progress,
                   measurementCallback, faults>>
    /\ UNCHANGED callVars
    /\ UNCHANGED trigVars
    /\ UNCHANGED otherVars

\* ---- the detached thread of startMeasurement ----------------------------

\* readSamples(): DEFAULT_SAMPLE_COUNT samples, or an exception (caught by
\* the thread's try block)
pipe_read(t, throws) ==
    /\ thr[t].pc = "read"
    /\ thr' = IF throws
              THEN [thr EXCEPT ![t].pc = "clear", ![t].threw = "read"]
              ELSE [thr EXCEPT ![t].pc = "lock"]
    /\ UNCHANGED <<fftwVars, fftw_mutex, measurement_in_progress,
                   measurementCallback, mainPc, faults>>
    /\ skipped' = skipped + (IF throws THEN 1 ELSE 0)
    /\ UNCHANGED <<inData, outData, started, invoked, mainResult>>
    /\ UNCHANGED trigVars
    /\ UNCHANGED otherVars

\* (mutant) processSamples() goes on without taking the mutex
pipe_lock_skipped(t) ==
    /\ thr[t].pc = "lock"
    /\ thr' = [thr EXCEPT ![t].pc = "check"]
    /\ UNCHANGED <<fftwVars, fftw_mutex, measurement_in_progress,
                   measurementCallback, mainPc, faults>>
    /\ UNCHANGED callVars
    /\ UNCHANGED trigVars
    /\ UNCHANGED otherVars

\* processSamples(): the size matches; std::lock_guard lock(fftw_mutex)
pipe_lock(t) ==
    /\ thr[t].pc = "lock"
    /\ fftw_mutex = {}
    /\ fftw_mutex' = {t}
    /\ thr' = [thr EXCEPT ![t].pc = "check"]
    /\ UNCHANGED <<fftwVars, measurement_in_progress, measurementCallback,
                   mainPc, faults>>
    /\ UNCHANGED callVars
    /\ UNCHANGED trigVars
    /\ UNCHANGED otherVars

\* the test at the head of the critical section
ResourcesAvailable ==
    /\ fftw_initialized
    /\ fftw_in # "null"
    /\ fftw_out # "null"
    /\ fftw_plan_r2c # "null"

\* (mutant) processSamples() without the test of the resources
pipe_check_unchecked(t) ==
    /\ thr[t].pc = "check"
    /\ thr' = [thr EXCEPT ![t].pc = "dc"]
    /\ UNCHANGED <<fftwVars, fftw_mutex, measurement_in_progress,
                   measurementCallback, mainPc, faults>>
    /\ UNCHANGED callVars
    /\ UNCHANGED trigVars
    /\ UNCHANGED otherVars

\* if (!fftw_initialized || !fftw_in || !fftw_out || !fftw_plan_r2c): the
\* zero result is returned and the lock released
pipe_check(t) ==
    /\ thr[t].pc = "check"
    /\ IF ResourcesAvailable
       THEN /\ thr' = [thr EXCEPT ![t].pc = "dc"]
            /\ UNCHANGED fftw_mutex
       ELSE /\ thr' = [thr EXCEPT ![t].pc = "deliver", ![t].result = "zero"]
            /\ fftw_mutex' = fftw_mutex \ {t}
    /\ UNCHANGED <<fftwVars, measurement_in_progress, measurementCallback,
                   mainPc, faults>>
    /\ UNCHANGED callVars
    /\ UNCHANGED trigVars
    /\ UNCHANGED otherVars

\* DC removal and Hamming window: fftw_in[i] is written
pipe_dc(t) ==
    /\ thr[t].pc = "dc"
    /\ faults' = faults \cup UseFaults({fftw_in})
    /\ inData' = thr[t].id
    /\ thr' = [thr EXCEPT ![t].pc = "exec"]
    /\ UNCHANGED <<fftwVars, fftw_mutex, measurement_in_progress,
                   measurementCallback, mainPc>>
    /\ UNCHANGED <<outData, started, invoked, mainResult, skipped>>
    /\ UNCHANGED trigVars
    /\ UNCHANGED otherVars

\* fftw_execute(fftw_plan_r2c): the plan reads fftw_in and writes fftw_out
pipe_exec(t) ==
    /\ thr[t].pc = "exec"
    /\ faults' = faults \cup UseFaults({fftw_plan_r2c, fftw_in, fftw_out})
    /\ outData' = inData
    /\ thr' = [thr EXCEPT ![t].pc = "scan"]
    /\ UNCHANGED <<fftwVars, fftw_mutex, measurement_in_progress,
                   measurementCallback, mainPc>>
    /\ UNCHANGED <<inData, started, invoked, mainResult, skipped>>
    /\ UNCHANGED trigVars
    /\ UNCHANGED otherVars

\* (mutant) an exception in the scan is swallowed inside processSamples()
\* and the thread goes on to the callback
pipe_scan_throwDelivers(t, throws) ==
    /\ thr[t].pc = "scan"
    /\ faults' = faults \cup UseFaults({fftw_out})
    /\ fftw_mutex' = fftw_mutex \ {t}
    /\ thr' = IF throws
              THEN [thr EXCEPT ![t].pc = "deliver", ![t].threw = "process"]
              ELSE [thr EXCEPT ![t].pc = "deliver", ![t].result = "value",
                               ![t].of = outData]
    /\ UNCHANGED <<fftwVars, measurement_in_progress, measurementCallback,
                   mainPc>>
    /\ skipped' = skipped + (IF throws THEN 1 ELSE 0)
    /\ UNCHANGED <<inData, outData, started, invoked, mainResult>>
    /\ UNCHANGED trigVars
    /\ UNCHANGED otherVars

\* (mutant) the flag is cleared when processSamples() returns, before the
\* callback
pipe_scan_clearsFlag(t, throws) ==
    /\ thr[t].pc = "scan"
    /\ faults' = faults \cup UseFaults({fftw_out})
    /\ fftw_mutex' = fftw_mutex \ {t}
    /\ measurement_in_progress' = FALSE
    /\ thr' = IF throws
              THEN [thr EXCEPT ![t].pc = "clear", ![t].threw = "process"]
              ELSE [thr EXCEPT ![t].pc = "deliver", ![t].result = "value",
                               ![t].of = outData]
    /\ UNCHANGED <<fftwVars, measurementCallback, mainPc>>
    /\ skipped' = skipped + (IF throws THEN 1 ELSE 0)
    /\ UNCHANGED <<inData, outData, started, invoked, mainResult>>
    /\ UNCHANGED trigVars
    /\ UNCHANGED otherVars

\* (mutant) the lock outlives processSamples()
pipe_scan_keepsLock(t, throws) ==
    /\ thr[t].pc = "scan"
    /\ faults' = faults \cup UseFaults({fftw_out})
    /\ UNCHANGED fftw_mutex
    /\ thr' = IF throws
              THEN [thr EXCEPT ![t].pc = "clear", ![t].threw = "process"]
              ELSE [thr EXCEPT ![t].pc = "deliver", ![t].result = "value",
                               ![t].of = outData]
    /\ UNCHANGED <<fftwVars, measurement_in_progress, measurementCallback,
                   mainPc>>
    /\ skipped' = skipped + (IF throws THEN 1 ELSE 0)
    /\ UNCHANGED <<inData, outData, started, invoked, mainResult>>
    /\ UNCHANGED trigVars
    /\ UNCHANGED otherVars

\* the scan of fftw_out[i], the result, and the release of the lock at the
\* return; an exception in the scan (peaks.push_back, the log strings)
\* releases the lock too and is caught by the thread's try block
pipe_scan(t, throws) ==
    /\ thr[t].pc = "scan"
    /\ faults' = faults \cup UseFaults({fftw_out})
    /\ fftw_mutex' = fftw_mutex \ {t}
    /\ thr' = IF throws
              THEN [thr EXCEPT ![t].pc = "clear", ![t].threw = "process"]
              ELSE [thr EXCEPT ![t].pc = "deliver", ![t].result = "value",
                               ![t].of = outData]
    /\ UNCHANGED <<fftwVars, measurement_in_progress, measurementCallback,
                   mainPc>>
    /\ skipped' = skipped + (IF throws THEN 1 ELSE 0)
    /\ UNCHANGED <<inData, outData, started, invoked, mainResult>>
    /\ UNCHANGED trigVars
    /\ UNCHANGED otherVars

\* how a call of the registered callback ends: it returns, it throws an
\* exception derived from std::exception, or it throws something else
CallbackOutcomes == {"returns", "throws", "throws_other"}

\* (mutant) the callback is invoked for a non-zero result only
pipe_deliver_successOnly(t, outcome) ==
    /\ thr[t].pc = "deliver"
    /\ IF measurementCallback /\ thr[t].result = "value"
       THEN /\ thr' = [thr EXCEPT
                        ![t].pc = IF outcome = "throws_other"
                                  THEN "uncaught" ELSE "clear",
                        ![t].delivered = TRUE,
                        ![t].carried = <<thr[t].result, thr[t].of>>,
                        ![t].threw = IF outcome = "returns"
                                     THEN "none" ELSE "callback"]
            /\ invoked' = invoked + 1
            /\ UNCHANGED skipped
            /\ faults' = faults \cup (IF outcome = "throws_other"
                                      THEN {"terminate"} ELSE {})
       ELSE /\ outcome = "returns"
            /\ thr' = [thr EXCEPT ![t].pc = "clear"]
            /\ skipped' = skipped + (IF measurementCallback THEN 0 ELSE 1)
            /\ UNCHANGED <<invoked, faults>>
    /\ UNCHANGED <<fftwVars, fftw_mutex, measurement_in_progress,
                   measurementCallback, mainPc>>
    /\ UNCHANGED <<inData, outData, started, mainResult>>
    /\ UNCHANGED trigVars
    /\ UNCHANGED otherVars

\* if (measurementCallback) measurementCallback(measurement): the callback
\* receives the result.  catch (const std::exception&) takes the thread to
\* the store below the try block; anything else the callback throws leaves
\* the thread function, which calls std::terminate
pipe_deliver(t, outcome) ==
    /\ thr[t].pc = "deliver"
    /\ IF measurementCallback
       THEN /\ thr' = [thr EXCEPT
                        ![t].pc = IF outcome = "throws_other"
                                  THEN "uncaught" ELSE "clear",
                        ![t].delivered = TRUE,
                        ![t].carried = <<thr[t].result, thr[t].of>>,
                        ![t].threw = IF outcome = "returns"
                                     THEN "none" ELSE "callback"]
            /\ invoked' = invoked + 1
            /\ UNCHANGED skipped
            /\ faults' = faults \cup (IF outcome = "throws_other"
                                      THEN {"terminate"} ELSE {})
       ELSE /\ outcome = "returns"
            /\ thr' = [thr EXCEPT ![t].pc = "clear"]
            /\ skipped' = skipped + 1
            /\ UNCHANGED <<invoked, faults>>
    /\ UNCHANGED <<fftwVars, fftw_mutex, measurement_in_progress,
                   measurementCallback, mainPc>>
    /\ UNCHANGED <<inData, outData, started, mainResult>>
    /\ UNCHANGED trigVars
    /\ UNCHANGED otherVars

\* measurement_in_progress.store(false), and the thread ends
pipe_clear(t) ==
    /\ thr[t].pc = "clear"
    /\ measurement_in_progress' = FALSE
    /\ thr' = [thr EXCEPT ![t].pc = "done"]
    /\ UNCHANGED <<fftwVars, fftw_mutex, measurementCallback, mainPc, faults>>
    /\ UNCHANGED callVars
    /\ UNCHANGED trigVars
    /\ UNCHANGED otherVars

\* ---- RadarManager::processSamples called by the foreground thread ------

\* the lengths of the sample vectors handed to processSamples()
SampleCounts ==
    {0, DEFAULT_SAMPLE_COUNT - 1, DEFAULT_SAMPLE_COUNT,
     DEFAULT_SAMPLE_COUNT + 1}

\* the mark of the foreground caller's samples in the buffers
MainTag == MaxStarts + 1

\* the foreground thread is in the part of processSamples() that works on
\* the buffers
MainInTransform == mainPc \in {"ps_dc", "ps_exec", "ps_scan"}

\* where processSamples() returns to: into startDebugMeasurement() if that
\* made the call, else to the caller of the RadarManager
ReturnPc == IF debug.in THEN "dbg_deliver" ELSE "idle"

\* (mutant) processSamples() without the test of the size
processSamples_size_unchecked(n) ==
    /\ mainPc = "idle"
    /\ mainResult' = "none"
    /\ mainPc' = "ps_lock"
    /\ UNCHANGED <<fftwVars, fftw_mutex, measurement_in_progress,
                   measurementCallback, thr, faults>>
    /\ UNCHANGED <<inData, outData, started, invoked, skipped>>
    /\ UNCHANGED trigVars
    /\ UNCHANGED otherVars

\* if (samples.size() != DEFAULT_SAMPLE_COUNT): the zero result is returned
processSamples_size(n) ==
    /\ mainPc = "idle"
    /\ IF n # DEFAULT_SAMPLE_COUNT
       THEN /\ mainResult' = "zero"
            /\ UNCHANGED mainPc
       ELSE /\ mainResult' = "none"
            /\ mainPc' = "ps_lock"
    /\ UNCHANGED <<fftwVars, fftw_mutex, measurement_in_progress,
                   measurementCallback, thr, faults>>
    /\ UNCHANGED <<inData, outData, started, invoked, skipped>>
    /\ UNCHANGED trigVars
    /\ UNCHANGED otherVars

\* std::lock_guard<std::mutex> lock(fftw_mutex)
processSamples_lock ==
    /\ mainPc = "ps_lock"
    /\ fftw_mutex = {}
    /\ fftw_mutex' = {0}
    /\ mainPc' = "ps_check"
    /\ UNCHANGED <<fftwVars, measurement_in_progress, measurementCallback,
                   thr, faults>>
    /\ UNCHANGED callVars
    /\ UNCHANGED trigVars
    /\ UNCHANGED otherVars

\* the test of the resources: without them the zero result is returned
processSamples_check ==
    /\ mainPc = "ps_check"
    /\ IF ResourcesAvailable
       THEN /\ mainPc' = "ps_dc"
            /\ UNCHANGED <<fftw_mutex, mainResult>>
       ELSE /\ mainPc' = ReturnPc
            /\ mainResult' = "zero"
            /\ fftw_mutex' = fftw_mutex \ {0}
    /\ UNCHANGED <<fftwVars, measurement_in_progress, measurementCallback,
                   thr, faults>>
    /\ UNCHANGED <<inData, outData, started, invoked, skipped>>
    /\ UNCHANGED trigVars
    /\ UNCHANGED otherVars

\* DC removal and Hamming window: fftw_in[i] is written
processSamples_dc ==
    /\ mainPc = "ps_dc"
    /\ faults' = faults \cup UseFaults({fftw_in})
    /\ inData' = MainTag
    /\ mainPc' = "ps_exec"
    /\ UNCHANGED <<fftwVars, fftw_mutex, measurement_in_progress,
                   measurementCallback, thr>>
    /\ UNCHANGED <<outData, started, invoked, mainResult, skipped>>
    /\ UNCHANGED trigVars
    /\ UNCHANGED otherVars

\* fftw_execute(fftw_plan_r2c)
processSamples_exec ==
    /\ mainPc = "ps_exec"
    /\ faults' = faults \cup UseFaults({fftw_plan_r2c, fftw_in, fftw_out})
    /\ outData' = inData
    /\ mainPc' = "ps_scan"
    /\ UNCHANGED <<fftwVars, fftw_mutex, measurement_in_progress,
                   measurementCallback, thr>>
    /\ UNCHANGED <<inData, started, invoked, mainResult, skipped>>
    /\ UNCHANGED trigVars
    /\ UNCHANGED otherVars

\* the scan of fftw_out[i] and the return, which releases the lock; an
\* exception in the scan releases it too and reaches the caller
processSamples_scan(throws) ==
    /\ mainPc = "ps_scan"
    /\ faults' = faults \cup UseFaults({fftw_out})
    /\ fftw_mutex' = fftw_mutex \ {0}
    /\ mainResult' = IF throws THEN "raised" ELSE "value"
    /\ mainPc' = ReturnPc
    /\ UNCHANGED <<fftwVars, measurement_in_progress, measurementCallback,
                   thr>>
    /\ UNCHANGED <<inData, outData, started, invoked, skipped>>
    /\ UNCHANGED trigVars
    /\ UNCHANGED otherVars

\* ---- RadarManager::startDebugMeasurement --------------------------------

\* what a call of startDebugMeasurement() has done: whether the foreground
\* thread is inside it, how many samples it synthesised, how often it
\* invoked the measurement callback, and how it ended ("returned", "caught"
\* after the catch block logged a std::exception, "escaped" when another
\* exception left the function)
DebugCall(in, n, calls, ended) ==
    [in |-> in, samples |-> n, calls |-> calls, ended |-> ended]

\* startDebugMeasurement() is called: std::vector<int>
\* samples(DEFAULT_SAMPLE_COUNT) is filled by the loop
startDebugMeasurement_samples ==
    /\ mainPc = "idle"
    /\ debug' = DebugCall(TRUE, DEFAULT_SAMPLE_COUNT, 0, "none")
    /\ mainPc' = "dbg_process"
    /\ UNCHANGED <<fftwVars, fftw_mutex, measurement_in_progress,
                   measurementCallback, thr, faults>>
    /\ UNCHANGED callVars
    /\ UNCHANGED trigVars
    /\ UNCHANGED <<libVars, shotVars, instVars>>

\* processSamples(samples, DEFAULT_SAMPLE_FREQ) is called on the calling
\* thread: its test of the size
startDebugMeasurement_process ==
    /\ mainPc = "dbg_process"
    /\ IF debug.samples # DEFAULT_SAMPLE_COUNT
       THEN /\ mainResult' = "zero"
            /\ mainPc' = "dbg_deliver"
       ELSE /\ mainResult' = "none"
            /\ mainPc' = "ps_lock"
    /\ UNCHANGED <<fftwVars, fftw_mutex, measurement_in_progress,
                   measurementCallback, thr, faults>>
    /\ UNCHANGED <<inData, outData, started, invoked, skipped>>
    /\ UNCHANGED trigVars
    /\ UNCHANGED <<debug, libVars, shotVars, instVars>>

\* (mutant) the zero result is not handed to the callback
startDebugMeasurement_deliver_valuesOnly(outcome) ==
    /\ mainPc = "dbg_deliver"
    /\ IF mainResult = "raised"
       THEN /\ outcome = "returns"
            /\ debug' = [debug EXCEPT !.in = FALSE, !.ended = "caught"]
       ELSE IF measurementCallback /\ mainResult = "value"
       THEN debug' = [debug EXCEPT
                        !.in = FALSE,
                        !.calls = @ + 1,
                        !.ended = CASE outcome = "returns" -> "returned"
                                    [] outcome = "throws" -> "caught"
                                    [] OTHER -> "escaped"]
       ELSE /\ outcome = "returns"
            /\ debug' = [debug EXCEPT !.in = FALSE, !.ended = "returned"]
    /\ mainPc' = "idle"
    /\ UNCHANGED <<fftwVars, fftw_mutex, measurement_in_progress,
                   measurementCallback, thr, faults>>
    /\ UNCHANGED callVars
    /\ UNCHANGED trigVars
    /\ UNCHANGED <<libVars, shotVars, instVars>>

\* after processSamples(): an exception of it is caught and logged; else
\* if (measurementCallback) measurementCallback(measurement), whose
\* std::exception is caught and logged and whose other exceptions leave
\* the function; else the missing callback is logged.  Then the function
\* is left.
startDebugMeasurement_deliver(outcome) ==
    /\ mainPc = "dbg_deliver"
    /\ IF mainResult = "raised"
       THEN /\ outcome = "returns"
            /\ debug' = [debug EXCEPT !.in = FALSE, !.ended = "caught"]
       ELSE IF measurementCallback
       THEN debug' = [debug EXCEPT
                        !.in = FALSE,
                        !.calls = @ + 1,
                        !.ended = CASE outcome = "returns" -> "returned"
                                    [] outcome = "throws" -> "caught"
                                    [] OTHER -> "escaped"]
       ELSE /\ outcome = "returns"
            /\ debug' = [debug EXCEPT !.in = FALSE, !.ended = "returned"]
    /\ mainPc' = "idle"
    /\ UNCHANGED <<fftwVars, fftw_mutex, measurement_in_progress,
                   measurementCallback, thr, faults>>
    /\ UNCHANGED callVars
    /\ UNCHANGED trigVars
    /\ UNCHANGED <<libVars, shotVars, instVars>>

\* no call of startDebugMeasurement() was made
DebugInit == debug = DebugCall(FALSE, 0, 0, "none")

\* the static members (radar.cpp) and the member initialisers (radar.hpp);
\* no thread exists
RadarInit ==
    /\ fftw_initialized = FALSE
    /\ fftw_in = "null"
    /\ fftw_out = "null"
    /\ fftw_plan_r2c = "null"
    /\ fftw_mutex = {}
    /\ measurement_in_progress = FALSE
    /\ measurementCallback = FALSE
    /\ mainPc = "idle"
    /\ thr = [t \in Pipelines |-> NewThread("unborn", 0)]
    /\ faults = {}
    /\ inData = 0
    /\ outData = 0
    /\ started = 0
    /\ invoked = 0
    /\ skipped = 0
    /\ mainResult = "none"

RadarNext ==
    \/ \E hw \in HwOutcomes : init_enter(hw)
    \/ init_in
    \/ init_out
    \/ \E ok \in BOOLEAN : init_plan(ok)
    \/ init_done
    \/ cleanup_enter
    \/ cleanup_spin
    \/ cleanup_lock
    \/ cleanup_free
    \/ cleanup_return
    \/ setMeasurementCallback
    \/ start_store
    \/ start_spawn
    \/ \E t \in Pipelines, throws \in BOOLEAN : pipe_read(t, throws)
    \/ \E t \in Pipelines : pipe_lock(t)
    \/ \E t \in Pipelines : pipe_check(t)
    \/ \E t \in Pipelines : pipe_dc(t)
    \/ \E t \in Pipelines : pipe_exec(t)
    \/ \E t \in Pipelines, throws \in BOOLEAN : pipe_scan(t, throws)
    \/ \E t \in Pipelines, outcome \in CallbackOutcomes :
         pipe_deliver(t, outcome)
    \/ \E t \in Pipelines : pipe_clear(t)
    \/ \E n \in SampleCounts : processSamples_size(n)
    \/ processSamples_lock
    \/ processSamples_check
    \/ processSamples_dc
    \/ processSamples_exec
    \/ \E throws \in BOOLEAN : processSamples_scan(throws)

(***************************************************************************)
(* Single-flight use, as in the tests: the caller starts a measurement and *)
(* waits for its pipeline to end before it starts the next one.            *)
(***************************************************************************)

\* startMeasurement() is called while no earlier pipeline is running
singleFlight_start ==
    /\ \A t \in Pipelines : ~Running(t)
    /\ start_store

SingleFlightNext ==
    \/ \E hw \in HwOutcomes : init_enter(hw)
    \/ init_in
    \/ init_out
    \/ \E ok \in BOOLEAN : init_plan(ok)
    \/ init_done
    \/ cleanup_enter
    \/ cleanup_spin
    \/ cleanup_lock
    \/ cleanup_free
    \/ cleanup_return
    \/ setMeasurementCallback
    \/ singleFlight_start
    \/ start_spawn
    \/ \E t \in Pipelines, throws \in BOOLEAN : pipe_read(t, throws)
    \/ \E t \in Pipelines : pipe_lock(t)
    \/ \E t \in Pipelines : pipe_check(t)
    \/ \E t \in Pipelines : pipe_dc(t)
    \/ \E t \in Pipelines : pipe_exec(t)
    \/ \E t \in Pipelines, throws \in BOOLEAN : pipe_scan(t, throws)
    \/ \E t \in Pipelines, outcome \in CallbackOutcomes :
         pipe_deliver(t, outcome)
    \/ \E t \in Pipelines : pipe_clear(t)

(***************************************************************************)
(* main() without --debug, up to the end of its loop: the components are   *)
(* initialised, the measurement callback and then the trigger callback are *)
(* registered, and the loop calls update() and sleeps.  The trigger        *)
(* callback calls startMeasurement().  The background threads run beside   *)
(* the loop.                                                               *)
(***************************************************************************)

\* the foreground thread is inside the trigger callback and has not yet
\* made its call of startMeasurement()
InTriggerCallback == fired > started

\* the loop is running and the foreground thread is between two calls
InLoop == triggerCallback /\ mainPc = "idle" /\ ~InTriggerCallback

\* RadarManager::getInstance().init(), the first call of main()
main_radar_init(hw) ==
    /\ mainResult = "none"
    /\ ~chip /\ ~measurementCallback /\ ~triggerCallback
    /\ init_enter(hw)

\* TriggerManager::getInstance().init()
main_trigger_init(o) ==
    /\ mainPc = "idle" /\ mainResult # "none"
    /\ ~measurementCallback /\ ~triggerCallback
    /\ TriggerManager_init(o)

\* RadarManager::getInstance().setMeasurementCallback(...)
main_setMeasurementCallback ==
    /\ mainResult # "none"
    /\ ~measurementCallback /\ ~triggerCallback
    /\ setMeasurementCallback

\* TriggerManager::getInstance().setTriggerCallback(...)
main_setTriggerCallback ==
    /\ mainPc = "idle"
    /\ measurementCallback /\ ~triggerCallback
    /\ setTriggerCallback

\* TriggerManager::getInstance().update() in the loop; when it invokes the
\* trigger callback the foreground thread is inside the callback
main_loop_update(v) ==
    /\ InLoop
    /\ update(v)

\* the time that passes between two update() calls of the loop, in whole
\* half cooldowns
LoopSteps == {d \in ClockSteps : 2 * d = cooldownPeriod}

\* std::this_thread::sleep_for in the loop
main_loop_sleep(d) ==
    /\ InLoop
    /\ Tick(d)

\* (mutant) startMeasurement() is called from the loop, trigger or not
main_trigger_callback_unwired ==
    /\ triggerCallback
    /\ start_store

\* the trigger callback: RadarManager::getInstance().startMeasurement()
main_trigger_callback ==
    /\ InTriggerCallback
    /\ start_store

MainNext ==
    \/ \E hw \in HwOutcomes : main_radar_init(hw)
    \/ init_in
    \/ init_out
    \/ \E ok \in BOOLEAN : init_plan(ok)
    \/ init_done
    \/ \E o \in InitOutcomes : main_trigger_init(o)
    \/ main_setMeasurementCallback
    \/ main_setTriggerCallback
    \/ \E v \in GpioValues : main_loop_update(v)
    \/ \E d \in LoopSteps : main_loop_sleep(d)
    \/ main_trigger_callback
    \/ start_spawn
    \/ \E t \in Pipelines, throws \in BOOLEAN : pipe_read(t, throws)
    \/ \E t \in Pipelines : pipe_lock(t)
    \/ \E t \in Pipelines : pipe_check(t)
    \/ \E t \in Pipelines : pipe_dc(t)
    \/ \E t \in Pipelines : pipe_exec(t)
    \/ \E t \in Pipelines, throws \in BOOLEAN : pipe_scan(t, throws)
    \/ \E t \in Pipelines, outcome \in CallbackOutcomes :
         pipe_deliver(t, outcome)
    \/ \E t \in Pipelines : pipe_clear(t)

(***************************************************************************)
(* The measurement callback that main() registers, run by the background   *)
(* threads: it appends the shot to shotHistory, counts it and displays it. *)
(* shotHistory.push_back() is made without a lock: a thread reads the end  *)
(* of the vector, then writes its element there and the new end.           *)
(***************************************************************************)

\* ShotData shot of the measurement that thread t delivers
ShotData(t) == [measurement |-> thr[t].id, result |-> thr[t].result]

\* the trigger callback of main(): startMeasurement(), once the measurement
\* callback is registered
shot_start ==
    /\ measurementCallback
    /\ start_store

\* if (measurementCallback) measurementCallback(measurement): the shot is
\* made and shotHistory.push_back(shot) reads the end of the vector; two
\* threads inside push_back() are a data race
shot_enter(t) ==
    /\ thr[t].pc = "deliver"
    /\ measurementCallback
    /\ pushing' = [pushing EXCEPT ![t] = Len(shotHistory)]
    /\ thr' = [thr EXCEPT ![t].pc = "cb_push"]
    /\ faults' = faults \cup (IF \E u \in Pipelines : pushing[u] # -1
                              THEN {"data_race"} ELSE {})
    /\ UNCHANGED <<shotHistory, shotCount>>
    /\ UNCHANGED <<fftwVars, fftw_mutex, measurement_in_progress,
                   measurementCallback, mainPc>>
    /\ UNCHANGED callVars
    /\ UNCHANGED trigVars
    /\ UNCHANGED <<debug, libVars, instVars>>

\* push_back() writes the element at the end it has read and sets the end
\* behind it
shot_push(t) ==
    /\ thr[t].pc = "cb_push"
    /\ shotHistory' = SubSeq(shotHistory, 1, pushing[t]) \o <<ShotData(t)>>
    /\ pushing' = [pushing EXCEPT ![t] = -1]
    /\ thr' = [thr EXCEPT ![t].pc = "cb_count"]
    /\ UNCHANGED shotCount
    /\ UNCHANGED <<fftwVars, fftw_mutex, measurement_in_progress,
                   measurementCallback, mainPc, faults>>
    /\ UNCHANGED callVars
    /\ UNCHANGED trigVars
    /\ UNCHANGED <<debug, libVars, instVars>>

\* int currentShot = ++shotCount; displayShotData(shot, currentShot); the
\* callback returns
shot_count(t) ==
    /\ thr[t].pc = "cb_count"
    /\ shotCount' = shotCount + 1
    /\ thr' = [thr EXCEPT ![t].pc = "clear",
                          ![t].delivered = TRUE,
                          ![t].carried = <<thr[t].result, thr[t].of>>]
    /\ invoked' = invoked + 1
    /\ UNCHANGED <<shotHistory, pushing>>
    /\ UNCHANGED <<fftwVars, fftw_mutex, measurement_in_progress,
                   measurementCallback, mainPc, faults>>
    /\ UNCHANGED <<inData, outData, started, skipped, mainResult>>
    /\ UNCHANGED trigVars
    /\ UNCHANGED <<debug, libVars, instVars>>

ShotNext ==
    \/ \E hw \in HwOutcomes : main_radar_init(hw)
    \/ init_in
    \/ init_out
    \/ \E ok \in BOOLEAN : init_plan(ok)
    \/ init_done
    \/ main_setMeasurementCallback
    \/ shot_start
    \/ start_spawn
    \/ \E t \in Pipelines, throws \in BOOLEAN : pipe_read(t, throws)
    \/ \E t \in Pipelines : pipe_lock(t)
    \/ \E t \in Pipelines : pipe_check(t)
    \/ \E t \in Pipelines : pipe_dc(t)
    \/ \E t \in Pipelines : pipe_exec(t)
    \/ \E t \in Pipelines, throws \in BOOLEAN : pipe_scan(t, throws)
    \/ \E t \in Pipelines : shot_enter(t)
    \/ \E t \in Pipelines : shot_push(t)
    \/ \E t \in Pipelines : shot_count(t)
    \/ \E t \in Pipelines : pipe_clear(t)

(***************************************************************************)
(* A second RadarManager, the TestRadarManager testManager of a test: the  *)
(* buffers, the plan and fftw_initialized are static members and so the    *)
(* same for every RadarManager; fftw_mutex is a member of each.  The       *)
(* foreground thread calls testManager.processSamples() while threads of   *)
(* the first RadarManager run.                                             *)
(***************************************************************************)

\* the foreground thread is in the part of testManager.processSamples()
\* that works on the buffers
TestInTransform == mainPc \in {"tps_dc", "tps_exec", "tps_scan"}

\* if (samples.size() != DEFAULT_SAMPLE_COUNT): the zero result is returned
testManager_processSamples_size(n) ==
    /\ mainPc = "idle"
    /\ IF n # DEFAULT_SAMPLE_COUNT
       THEN /\ mainResult' = "zero"
            /\ UNCHANGED mainPc
       ELSE /\ mainResult' = "none"
            /\ mainPc' = "tps_lock"
    /\ UNCHANGED <<fftwVars, fftw_mutex, measurement_in_progress,
                   measurementCallback, thr, faults>>
    /\ UNCHANGED <<inData, outData, started, invoked, skipped>>
    /\ UNCHANGED trigVars
    /\ UNCHANGED otherVars

\* std::lock_guard<std::mutex> lock(fftw_mutex): the member of testManager
testManager_processSamples_lock ==
    /\ mainPc = "tps_lock"
    /\ testManager_mutex = {}
    /\ testManager_mutex' = {0}
    /\ mainPc' = "tps_check"
    /\ UNCHANGED <<fftwVars, fftw_mutex, measurement_in_progress,
                   measurementCallback, thr, faults>>
    /\ UNCHANGED callVars
    /\ UNCHANGED trigVars
    /\ UNCHANGED <<debug, libVars, shotVars>>

\* the test of the resources: without them the zero result is returned
testManager_processSamples_check ==
    /\ mainPc = "tps_check"
    /\ IF ResourcesAvailable
       THEN /\ mainPc' = "tps_dc"
            /\ UNCHANGED <<testManager_mutex, mainResult>>
       ELSE /\ mainPc' = "idle"
            /\ mainResult' = "zero"
            /\ testManager_mutex' = testManager_mutex \ {0}
    /\ UNCHANGED <<fftwVars, fftw_mutex, measurement_in_progress,
                   measurementCallback, thr, faults>>
    /\ UNCHANGED <<inData, outData, started, invoked, skipped>>
    /\ UNCHANGED trigVars
    /\ UNCHANGED <<debug, libVars, shotVars>>

\* DC removal and Hamming window: fftw_in[i] is written
testManager_processSamples_dc ==
    /\ mainPc = "tps_dc"
    /\ faults' = faults \cup UseFaults({fftw_in})
    /\ inData' = MainTag
    /\ mainPc' = "tps_exec"
    /\ UNCHANGED <<fftwVars, fftw_mutex, measurement_in_progress,
                   measurementCallback, thr>>
    /\ UNCHANGED <<outData, started, invoked, mainResult, skipped>>
    /\ UNCHANGED trigVars
    /\ UNCHANGED otherVars

\* fftw_execute(fftw_plan_r2c)
testManager_processSamples_exec ==
    /\ mainPc = "tps_exec"
    /\ faults' = faults \cup UseFaults({fftw_plan_r2c, fftw_in, fftw_out})
    /\ outData' = inData
    /\ mainPc' = "tps_scan"
    /\ UNCHANGED <<fftwVars, fftw_mutex, measurement_in_progress,
                   measurementCallback, thr>>
    /\ UNCHANGED <<inData, started, invoked, mainResult, skipped>>
    /\ UNCHANGED trigVars
    /\ UNCHANGED otherVars

\* the scan of fftw_out[i] and the return, which releases the lock
testManager_processSamples_scan(throws) ==
    /\ mainPc = "tps_scan"
    /\ faults' = faults \cup UseFaults({fftw_out})
    /\ testManager_mutex' = testManager_mutex \ {0}
    /\ mainResult' = IF throws THEN "raised" ELSE "value"
    /\ mainPc' = "idle"
    /\ UNCHANGED <<fftwVars, fftw_mutex, measurement_in_progress,
                   measurementCallback, thr>>
    /\ UNCHANGED <<inData, outData, started, invoked, skipped>>
    /\ UNCHANGED trigVars
    /\ UNCHANGED <<debug, libVars, shotVars>>

InstancesNext ==
    \/ \E hw \in HwOutcomes : init_enter(hw)
    \/ init_in
    \/ init_out
    \/ \E ok \in BOOLEAN : init_plan(ok)
    \/ init_done
    \/ setMeasurementCallback
    \/ start_store
    \/ start_spawn
    \/ \E t \in Pipelines, throws \in BOOLEAN : pipe_read(t, throws)
    \/ \E t \in Pipelines : pipe_lock(t)
    \/ \E t \in Pipelines : pipe_check(t)
    \/ \E t \in Pipelines : pipe_dc(t)
    \/ \E t \in Pipelines : pipe_exec(t)
    \/ \E t \in Pipelines, throws \in BOOLEAN : pipe_scan(t, throws)
    \/ \E t \in Pipelines, outcome \in CallbackOutcomes :
         pipe_deliver(t, outcome)
    \/ \E t \in Pipelines : pipe_clear(t)
    \/ \E n \in SampleCounts : testManager_processSamples_size(n)
    \/ testManager_processSamples_lock
    \/ testManager_processSamples_check
    \/ testManager_processSamples_dc
    \/ testManager_processSamples_exec
    \/ \E throws \in BOOLEAN : testManager_processSamples_scan(throws)

(***************************************************************************)
(* Floating-point arithmetic as the build evaluates it (IEEE 754, round to *)
(* nearest, ties to even, float expressions in float and mixed ones in     *)
(* double).  A value is m * 2^e with m = 0 or 2^23 <= m < 2^24 for a       *)
(* float; the values that occur are non-negative, normal and finite.  An   *)
(* exact intermediate result is a sequence of binary digits, most          *)
(* significant first, times 2^e, with the mark "sticky" when something     *)
(* non-zero lies below the last digit.                                     *)
(***************************************************************************)

\* 2^k
RECURSIVE Pow2(_)
Pow2(k) ==
    IF k = 0 THEN 1
    ELSE LET h == Pow2(k \div 2)
         IN  IF k % 2 = 0 THEN h * h ELSE 2 * h * h

\* k zeros
Zeros(k) == [i \in 1..k |-> 0]

\* the number of binary digits of n, for n below 2^30
BitLength(n) ==
    CHOOSE L \in 0..30 : n < Pow2(L) /\ (L = 0 \/ Pow2(L - 1) <= n)

\* the binary digits of n, most significant first
BitsOf(n) ==
    LET L == BitLength(n) IN [i \in 1..L |-> (n \div Pow2(L - i)) % 2]

\* the number below 2^30 whose binary digits are bits
RECURSIVE ValueOf(_)
ValueOf(bits) ==
    IF Len(bits) = 0 THEN 0
    ELSE IF Len(bits) = 1 THEN bits[1]
    ELSE LET h == Len(bits) \div 2
         IN  ValueOf(SubSeq(bits, 1, h)) * Pow2(Len(bits) - h)
               + ValueOf(SubSeq(bits, h + 1, Len(bits)))

\* the digits of the number plus one
IncBits(bits) ==
    LET zs == {i \in 1..Len(bits) : bits[i] = 0}
    IN  IF zs = {} THEN <<1>> \o Zeros(Len(bits))
        ELSE LET k == CHOOSE i \in zs : \A j \in zs : j <= i
             IN  [i \in 1..Len(bits) |->
                    IF i < k THEN bits[i] ELSE IF i = k THEN 1 ELSE 0]

\* the digits without leading zeros
StripZeros(bits) ==
    LET os == {i \in 1..Len(bits) : bits[i] = 1}
    IN  IF os = {} THEN <<>>
        ELSE SubSeq(bits, CHOOSE i \in os : \A j \in os : i <= j, Len(bits))

\* the exact value q rounded to p significant digits
RoundTo(p, q) ==
    LET L == Len(q.bits) IN
    IF L <= p
    THEN [bits |-> q.bits \o Zeros(p - L), sticky |-> FALSE,
          e |-> q.e - (p - L)]
    ELSE LET top == SubSeq(q.bits, 1, p)
             rest == SubSeq(q.bits, p + 1, L)
             below == q.sticky \/ \E i \in 2..Len(rest) : rest[i] = 1
             up == rest[1] = 1 /\ (below \/ top[p] = 1)
             r == IF up THEN IncBits(top) ELSE top
         IN  IF Len(r) > p
             THEN [bits |-> SubSeq(r, 1, p), sticky |-> FALSE,
                   e |-> q.e + (L - p) + 1]
             ELSE [bits |-> r, sticky |-> FALSE, e |-> q.e + (L - p)]

\* the base of the limbs in which exact products are formed
Limb == 4096

\* the limbs of a number below 2^24, least significant first
Limbs24(x) == <<x % Limb, x \div Limb>>

\* limb i of ys, zero outside it
LimbAt(ys, i) == IF i >= 1 /\ i <= Len(ys) THEN ys[i] ELSE 0

\* the limbs i, i+1, ... of the product of x (below 2^24) and ys
RECURSIVE MulLimbs(_, _, _, _)
MulLimbs(x, ys, i, carry) ==
    IF i > Len(ys) + 2 THEN <<>>
    ELSE LET t == (x % Limb) * LimbAt(ys, i)
                  + (x \div Limb) * LimbAt(ys, i - 1) + carry
         IN  <<t % Limb>> \o MulLimbs(x, ys, i + 1, t \div Limb)

\* the binary digits of a number given by its limbs
RECURSIVE LimbBits(_)
LimbBits(ls) ==
    IF ls = <<>> THEN <<>>
    ELSE LET b == BitsOf(Head(ls))
         IN  LimbBits(Tail(ls)) \o Zeros(12 - Len(b)) \o b

\* the exact product of the float a and the number with limbs ys times 2^e
Product(a, ys, e) ==
    [bits |-> StripZeros(LimbBits(MulLimbs(a.m, ys, 1, 0))),
     sticky |-> FALSE, e |-> a.e + e]

\* the next k digits to the base 64 of a quotient by d (below 2^24), from
\* the remainder rem on, as binary digits
RECURSIVE DivStep(_, _, _)
DivStep(rem, d, k) ==
    IF k = 0 THEN [bits |-> <<>>, rem |-> rem]
    ELSE LET digit == BitsOf((64 * rem) \div d)
             r == DivStep((64 * rem) % d, d, k - 1)
         IN  [bits |-> Zeros(6 - Len(digit)) \o digit \o r.bits,
              rem |-> r.rem]

\* the quotient of the floats a and b, to 6 * k binary digits after the
\* binary point of the quotient of their mantissas
Quotient(a, b, k) ==
    LET s == DivStep(a.m % b.m, b.m, k)
    IN  [bits |-> StripZeros(BitsOf(a.m \div b.m) \o s.bits),
         sticky |-> s.rem # 0, e |-> a.e - b.e - 6 * k]

\* 0.0f
FloatZero == [m |-> 0, e |-> 0]

\* the conversion of an exact or double value to float
ToFloat(q) == LET r == RoundTo(24, q) IN [m |-> ValueOf(r.bits), e |-> r.e]

\* the rounding of an exact value to double
ToDouble(q) == RoundTo(53, q)

\* the float of a positive integer below 2^31
FloatOf(n) == ToFloat([bits |-> BitsOf(n), sticky |-> FALSE, e |-> 0])

\* the float x * 2^k
Scaled(x, k) == IF x.m = 0 THEN x ELSE [m |-> x.m, e |-> x.e + k]

\* a * b of two floats, evaluated in float
float_mul(a, b) ==
    IF a.m = 0 \/ b.m = 0 THEN FloatZero
    ELSE ToFloat(Product(a, Limbs24(b.m), b.e))

\* a / b of two floats, evaluated in float
float_div(a, b) ==
    IF a.m = 0 THEN FloatZero ELSE ToFloat(Quotient(a, b, 5))

\* a / b where b is a double that holds a float's value: evaluated in
\* double, the result converted to float
double_div(a, b) ==
    IF a.m = 0 THEN FloatZero ELSE ToFloat(ToDouble(Quotient(a, b, 10)))

\* a * b where b is the double with limbs ys times 2^e: evaluated in
\* double, the result converted to float
double_mul(a, ys, e) ==
    IF a.m = 0 THEN FloatZero ELSE ToFloat(ToDouble(Product(a, ys, e)))

\* const float RADAR_FREQ = 10.525e9, which is 10524999680 as a float
RADAR_FREQ == [m |-> 10278320, e |-> 10]

\* const float SPEED_OF_LIGHT = 299792458.0, which is 299792448 as a float
SPEED_OF_LIGHT == [m |-> 9368514, e |-> 5]

\* the double 2.23694: its limbs, least significant first, times 2^-51
MPH_PER_MPS == <<2551, 1934, 204, 3668, 17>>

\* the float 2.23694f
MPH_PER_MPS_F == [m |-> 9382406, e |-> -22]

\* (mutant) the Doppler equation without the factor 2 of the round trip
frequencyToSpeed_oneWay(frequency) ==
    double_div(float_mul(SPEED_OF_LIGHT, frequency), RADAR_FREQ)

\* float RadarManager::frequencyToSpeed(float frequency):
\* return (SPEED_OF_LIGHT * frequency) / (2.0 * RADAR_FREQ)
frequencyToSpeed(frequency) ==
    double_div(float_mul(SPEED_OF_LIGHT, frequency), Scaled(RADAR_FREQ, 1))

\* result.speedMPH = result.speedMPS * 2.23694
ToMPH(speedMPS) == double_mul(speedMPS, MPH_PER_MPS, -51)

\* the Doppler frequency of a speed as the synthetic generators compute it:
\* float dopplerFreq = (2.0f * speedMPS * RADAR_FREQ) / SPEED_OF_LIGHT
dopplerFreq(speedMPS) ==
    float_div(float_mul(Scaled(speedMPS, 1), RADAR_FREQ), SPEED_OF_LIGHT)

\* float speedMPS = speedMPH / 2.23694f
ToMPS(speedMPH) == float_div(speedMPH, MPH_PER_MPS_F)

(***************************************************************************)
(* The computations of RadarManager, taken alone.  The scan of             *)
(* processSamples() is applied to spectra: fftw_out[0..n/2] as             *)
(* fftw_execute() left it for n = DEFAULT_SAMPLE_COUNT samples.  A         *)
(* spectrum is zero except at a few bins, where its real and imaginary     *)
(* parts are integers whose magnitude sqrt(re*re + im*im) is an integer,   *)
(* so that the double arithmetic of the scan is exact on them.             *)
(***************************************************************************)

\* constexpr int DEFAULT_SAMPLE_FREQ = 10000
DEFAULT_SAMPLE_FREQ == 10000

\* the bins at which the spectra of the model may be non-zero: the DC bin,
\* the first bins, the bin next to the Doppler frequency of 120 mph, the
\* last bin below n/2, and the bin n/2
ProbeBins == {0, 1, 2, 386, DEFAULT_SAMPLE_COUNT \div 2 - 1,
              DEFAULT_SAMPLE_COUNT \div 2}

\* the values fftw_out[i] takes there; the bins 0 and n/2 of the transform
\* of real data are real
BinValues(i) ==
    IF i \in {0, DEFAULT_SAMPLE_COUNT \div 2}
    THEN {<<0, 0>>, <<5, 0>>, <<-13, 0>>}
    ELSE {<<0, 0>>, <<3, -4>>, <<0, 5>>, <<-12, 5>>}

\* the spectrum that is p at the probe bins and zero elsewhere
Spectrum(p) ==
    [i \in 0..(DEFAULT_SAMPLE_COUNT \div 2) |->
       IF i \in ProbeBins THEN p[i] ELSE <<0, 0>>]

Spectra ==
    LET Values == UNION {BinValues(i) : i \in ProbeBins}
    IN  {Spectrum(p) : p \in {q \in [ProbeBins -> Values] :
                                 \A i \in ProbeBins : q[i] \in BinValues(i)}}

\* sqrt(x) of a perfect square
Sqrt(x) == CHOOSE r \in 0..x : r * r = x

\* double magnitude = sqrt(real*real + imag*imag)
Magnitude(c) == Sqrt(c[1] * c[1] + c[2] * c[2])

\* (mutant) a bin of equal magnitude replaces the one held
ScanBin_lastWins(out, i, best) ==
    LET magnitude == Magnitude(out[i])
    IN  IF magnitude >= best.maxMagnitude
        THEN [maxMagnitude |-> magnitude, maxIndex |-> i]
        ELSE best

\* one pass of the loop body for bin i:
\* if (magnitude > maxMagnitude) { maxMagnitude = magnitude; maxIndex = i; }
ScanBin(out, i, best) ==
    LET magnitude == Magnitude(out[i])
    IN  IF magnitude > best.maxMagnitude
        THEN [maxMagnitude |-> magnitude, maxIndex |-> i]
        ELSE best

\* the passes for the bins lo, lo+1, ..., hi-1 in this order, from best on:
\* the passes of the first half, then those of the second half from the
\* outcome of the first (the test of it has the first half evaluated
\* before the second is entered)
RECURSIVE ScanBins(_, _, _, _)
ScanBins(out, lo, hi, best) ==
    IF ~(lo < hi) THEN best
    ELSE IF lo + 1 = hi THEN ScanBin(out, lo, best)
    ELSE LET mid == (lo + hi) \div 2
             first == ScanBins(out, lo, mid, best)
         IN  IF first.maxIndex < mid THEN ScanBins(out, mid, hi, first)
                                     ELSE first

\* (mutant) the loop starts at the DC bin
DominantBin_fromDC(out, n) ==
    ScanBins(out, 0, n \div 2, [maxMagnitude |-> 0, maxIndex |-> 0])

\* double maxMagnitude = 0.0; int maxIndex = 0;
\* for (size_t i = 1; i < samples.size() / 2; i++) { ... }
DominantBin(out, n) ==
    ScanBins(out, 1, n \div 2, [maxMagnitude |-> 0, maxIndex |-> 0])

\* double freqResolution = static_cast<double>(sampleFreq) / samples.size()
\* and double dominantFreq = maxIndex * freqResolution, handed to
\* frequencyToSpeed(float): for n = 1024 = 2^10 the quotient and the
\* product are exact in double, and the conversion to float rounds
BinFrequency(index, sampleFreq) ==
    IF index = 0 THEN FloatZero
    ELSE ToFloat([bits |-> BitsOf(index * sampleFreq), sticky |-> FALSE,
                  e |-> -10])

\* the conversion of a double that holds an integer to float
\* (result.signalStrength = maxMagnitude)
FloatOfMagnitude(x) == IF x = 0 THEN FloatZero ELSE FloatOf(x)

\* the part of processSamples() after fftw_execute(): the scan, and the
\* RadarMeasurement made of its outcome
processSamples_result(out, sampleFreq) ==
    LET best == DominantBin(out, DEFAULT_SAMPLE_COUNT)
        speedMPS == frequencyToSpeed(BinFrequency(best.maxIndex, sampleFreq))
    IN  [speedMPS |-> speedMPS,
         speedMPH |-> ToMPH(speedMPS),
         signalStrength |-> FloatOfMagnitude(best.maxMagnitude)]

\* a computation: op names it ("none" before it is made), arg is its
\* input and ret its result
Calc(op, arg, ret) == [op |-> op, arg |-> arg, ret |-> ret]

\* an input that waits for its computation
Input(kind, arg) == [op |-> "none", kind |-> kind, arg |-> arg]

\* processSamples() scans the spectrum and makes the result
calc_processSamples ==
    /\ calc.op = "none"
    /\ calc.kind = "spectrum"
    /\ calc' = Calc("processSamples", calc.arg,
                    processSamples_result(calc.arg, DEFAULT_SAMPLE_FREQ))
    /\ UNCHANGED <<trigVars, radarVars, debug, logVars, shotVars,
                   instVars>>

\* the speeds, in m/s, whose Doppler frequency is formed: the halves of a
\* metre per second up to 100 m/s, and the speeds of the tests and of the
\* debug measurement, converted from mph
TestSpeedsMPH == {5, 10, 15, 30, 50, 60, 75, 80, 85, 90, 120}

SpeedsMPS ==
    {Scaled(FloatOf(k), -1) : k \in 1..200}
      \cup {ToMPS(FloatOf(S)) : S \in TestSpeedsMPH}

\* the Doppler frequency of a speed is formed as the generators form it and
\* handed to frequencyToSpeed()
calc_roundTrip ==
    /\ calc.op = "none"
    /\ calc.kind = "speed"
    /\ calc' = Calc("roundTrip", calc.arg,
                    [frequency |-> dopplerFreq(calc.arg),
                     speed |-> frequencyToSpeed(dopplerFreq(calc.arg))])
    /\ UNCHANGED <<trigVars, radarVars, debug, logVars, shotVars,
                   instVars>>

\* ---- the loop over the bins, pass by pass ------------------------------

\* the bins the loop of a scan followed pass by pass goes through
MaxBins == 6

\* samples.size() of such a scan: its bins are 0..n/2, the loop ends below
\* n/2
ScanSize == 2 * (MaxBins + 1)

\* the values of fftw_out[i] in these scans: bins 0 and n/2 are real, and
\* bin 0 holds what is left of the mean
ScanValues(i) ==
    CASE i = 0 -> {<<-13, 0>>}
      [] i = ScanSize \div 2 -> {<<0, 0>>, <<-13, 0>>}
      [] OTHER -> {<<0, 0>>, <<3, -4>>, <<-12, 5>>}

ScanSpectra ==
    {out \in [0..(ScanSize \div 2) -> {<<0, 0>>, <<-13, 0>>, <<3, -4>>,
                                       <<-12, 5>>}] :
        \A i \in 0..(ScanSize \div 2) : out[i] \in ScanValues(i)}

\* the spectra whose scanned bins have the magnitudes 1..MaxBins in some
\* order, with a larger value in the bins 0 and n/2
DistinctSpectra ==
    {[i \in 0..(ScanSize \div 2) |->
         IF i \in 1..MaxBins THEN <<order[i], 0>> ELSE <<-13, 0>>] :
       order \in Permutations(1..MaxBins)}

\* Peak peak = {static_cast<int>(i), freq, magnitude, speed}; frequency and
\* speed are functions of the index
Peak(i, magnitude) == [index |-> i, magnitude |-> magnitude]

\* the orders std::sort may leave the peaks in with the comparison
\* a.magnitude > b.magnitude: the order of peaks of equal magnitude is not
\* specified
RECURSIVE SortedOrders(_)
SortedOrders(held) ==
    IF held = {} THEN {<<>>}
    ELSE LET first == {p \in held :
                         \A q \in held : p.magnitude >= q.magnitude}
         IN  UNION {{<<p>> \o rest : rest \in SortedOrders(held \ {p})} :
                      p \in first}

\* the elements of a sequence
Range(seq) == {seq[k] : k \in 1..Len(seq)}

\* (mutant) the candidate is compared with the strongest peak held
Admitted_aboveFront(peaks, magnitude) ==
    Len(peaks) < 5 \/ magnitude > peaks[1].magnitude

\* if (peaks.size() < 5 || magnitude > peaks.back().magnitude)
Admitted(peaks, magnitude) ==
    Len(peaks) < 5 \/ magnitude > peaks[Len(peaks)].magnitude

\* if (peaks.size() > 5) peaks.pop_back()
KeepFive(peaks) == IF Len(peaks) > 5 THEN SubSeq(peaks, 1, 5) ELSE peaks

\* (mutant) the loop goes on to the bin n/2
InScan_throughNyquist(i, n) == i <= n \div 2

\* the condition of the loop: i < samples.size() / 2
InScan(i, n) == i < n \div 2

\* the state of the loop: the bin of the next pass, the dominant bin so
\* far and the peaks held
ScanState(i, best, peaks) == [i |-> i, best |-> best, peaks |-> peaks]

\* double maxMagnitude = 0.0; int maxIndex = 0; std::vector<Peak> peaks;
\* size_t i = 1
scan_begin ==
    /\ calc.op = "none"
    /\ calc.kind = "scan"
    /\ calc' = Calc("scan", calc.arg,
                    ScanState(1, [maxMagnitude |-> 0, maxIndex |-> 0], <<>>))
    /\ UNCHANGED <<trigVars, radarVars, debug, logVars, shotVars,
                   instVars>>

\* (mutant) the peak pushed last is the one that is dropped
PeaksAfter_newestDropped(out, i, peaks) ==
    IF Admitted(peaks, Magnitude(out[i]))
    THEN {IF Len(peaks) < 5 THEN sorted ELSE peaks :
            sorted \in SortedOrders(Range(peaks)
                                      \cup {Peak(i, Magnitude(out[i]))})}
    ELSE {peaks}

\* the peaks a pass of the loop for bin i may leave: a candidate that is
\* admitted is pushed, the peaks sorted and the sixth of them dropped
PeaksAfter(out, i, peaks) ==
    IF Admitted(peaks, Magnitude(out[i]))
    THEN {KeepFive(sorted) :
            sorted \in SortedOrders(Range(peaks)
                                      \cup {Peak(i, Magnitude(out[i]))})}
    ELSE {peaks}

\* one pass of the loop: the dominant bin is tracked, then the peaks
scan_bin ==
    /\ calc.op = "scan"
    /\ InScan(calc.ret.i, ScanSize)
    /\ \E peaks \in PeaksAfter(calc.arg, calc.ret.i, calc.ret.peaks) :
          calc' = Calc("scan", calc.arg,
                       ScanState(calc.ret.i + 1,
                                 ScanBin(calc.arg, calc.ret.i, calc.ret.best),
                                 peaks))
    /\ UNCHANGED <<trigVars, radarVars, debug, logVars, shotVars,
                   instVars>>

\* the lists of peaks the passes for the bins i, i+1, ... may leave at the
\* end of the loop, begun with one of the lists in held
RECURSIVE PeaksAtEnd(_, _, _)
PeaksAtEnd(out, i, held) ==
    IF ~InScan(i, ScanSize) THEN held
    ELSE PeaksAtEnd(out, i + 1,
                    UNION {PeaksAfter(out, i, peaks) : peaks \in held})

ScanInputs == {Input("scan", out) : out \in ScanSpectra \cup DistinctSpectra}

ScanNext ==
    \/ scan_begin
    \/ scan_bin

\* ---- sample acquisition ------------------------------------------------

\* the longest request of samples besides that of DEFAULT_SAMPLE_COUNT
MaxSamples == 2

\* the bytes that bcm2835_spi_transfern() leaves in buffer[1] and buffer[2]
ProbeBytes == <<0, 3, 128, 252, 255>>

\* the k-th reply of the converter, k in 0..24: <<buffer[1], buffer[2]>>
Reply(k) == <<ProbeBytes[(k \div 5) + 1], ProbeBytes[(k % 5) + 1]>>

Replies == {Reply(k) : k \in 0..24}

\* the replies one after the other
ReplyCycle == [k \in 1..25 |-> Reply(k - 1)]

\* the requests: a count and what the hardware answers to each transfer
Requests(Answers, cycle) ==
    UNION {{[numSamples |-> n, answers |-> a] : a \in [1..n -> Answers]} :
              n \in 0..MaxSamples}
      \cup {[numSamples |-> DEFAULT_SAMPLE_COUNT,
             answers |-> [i \in 1..DEFAULT_SAMPLE_COUNT |->
                             cycle[((i + o) % Len(cycle)) + 1]]] :
                o \in 0..(Len(cycle) - 1)}

\* (mutant) the upper six bits of buffer[1] are kept
ExtractValue_unmasked(buffer) == (buffer[1] * 256) + buffer[2]

\* int value = ((buffer[1] & 0x03) << 8) | buffer[2]: the low two bits of
\* buffer[1] above the eight bits of buffer[2]
ExtractValue(buffer) == ((buffer[1] % 4) * 256) + buffer[2]

\* RadarManager::readSamples(numSamples, sampleFreq): a vector of numSamples
\* elements, each assigned the value extracted from one transfer
readSamples(numSamples, answers) ==
    [i \in 1..numSamples |-> ExtractValue(answers[i])]

calc_readSamples ==
    /\ calc.op = "none"
    /\ calc.kind = "adc"
    /\ calc' = Calc("readSamples", calc.arg,
                    readSamples(calc.arg.numSamples, calc.arg.answers))
    /\ UNCHANGED <<trigVars, radarVars, debug, logVars, shotVars,
                   instVars>>

\* 400 * sin(...) in quarters of an ADC count, and rand() % 40 - 20
ProbeSines == <<-1600, -2, 1600>>
ProbeNoise == <<-20, 0, 19>>

\* the k-th draw of the generator, k in 0..8: <<sine term, noise>>
Draw(k) == <<ProbeSines[(k \div 3) + 1], ProbeNoise[(k % 3) + 1]>>

Draws == {Draw(k) : k \in 0..8}

\* the draws one after the other
DrawCycle == [k \in 1..9 |-> Draw(k - 1)]

\* float value = 512 + 400 * sin(...); value += (rand() % 40) - 20;
\* if (value < 0) value = 0; if (value > 1023) value = 1023;
\* samples[i] = static_cast<int>(value), with value in quarters of a count
SyntheticSample(draw) ==
    LET value == (512 * 4) + draw[1] + (draw[2] * 4)
        low == IF value < 0 THEN 0 ELSE value
        clamped == IF low > 1023 * 4 THEN 1023 * 4 ELSE low
    IN  clamped \div 4

\* the generator of TestRadarManager::readSamples(numSamples, sampleFreq)
\* and of startDebugMeasurement(): a vector of numSamples elements
SyntheticSamples(numSamples, draws) ==
    [i \in 1..numSamples |-> SyntheticSample(draws[i])]

calc_testSamples ==
    /\ calc.op = "none"
    /\ calc.kind = "test"
    /\ calc' = Calc("testSamples", calc.arg,
                    SyntheticSamples(calc.arg.numSamples, calc.arg.answers))
    /\ UNCHANGED <<trigVars, radarVars, debug, logVars, shotVars,
                   instVars>>

\* the generator of startDebugMeasurement() fills DEFAULT_SAMPLE_COUNT samples
calc_debugSamples ==
    /\ calc.op = "none"
    /\ calc.kind = "debug"
    /\ calc' = Calc("debugSamples", calc.arg,
                    SyntheticSamples(DEFAULT_SAMPLE_COUNT, calc.arg.answers))
    /\ UNCHANGED <<trigVars, radarVars, debug, logVars, shotVars,
                   instVars>>

\* no computation is made alone
CalcInit == calc = Input("none", <<>>)

\* the inputs of the computations, by the kind of the computation
InputKinds == {"spectrum", "speed", "adc", "test", "debug"}

CalcInputs(kind) ==
    CASE kind = "spectrum" -> {Input(kind, out) : out \in Spectra}
      [] kind = "speed" -> {Input(kind, v) : v \in SpeedsMPS}
      [] kind = "adc" ->
          {Input(kind, r) : r \in Requests(Replies, ReplyCycle)}
      [] kind = "test" ->
          {Input(kind, r) : r \in Requests(Draws, DrawCycle)}
      [] kind = "debug" ->
          {Input(kind, r) :
              r \in {q \in Requests(Draws, DrawCycle) :
                        q.numSamples = DEFAULT_SAMPLE_COUNT}}

CalcNext ==
    \/ calc_processSamples
    \/ calc_roundTrip
    \/ calc_readSamples
    \/ calc_testSamples
    \/ calc_debugSamples

(***************************************************************************)
(* Logger                                                                  *)
(***************************************************************************)

\* the calls of info(), debug() and error() that are followed
MaxLog == 2

\* enum class LogLevel { DEBUG, INFO, ERROR }
LogLevels == {"DEBUG", "INFO", "ERROR"}

\* the value of an enumerator, which operator< compares
LevelValue(level) ==
    CASE level = "DEBUG" -> 0
      [] level = "INFO" -> 1
      [] level = "ERROR" -> 2

\* the streams Logger::init() is given: std::cout and that of a test
Streams == {"cout", "testStream"}

Messages == {"msg"}

\* std::string Logger::logLevelToString(LogLevel level)
logLevelToString(level) == level

\* std::string Logger::colorForLevel(LogLevel level)
colorForLevel(level) ==
    CASE level = "INFO" -> "green"
      [] level = "DEBUG" -> "blue"
      [] level = "ERROR" -> "red"

\* color << "[" << logLevelToString(level) << "] " << reset << timeStr
\* << " - " << msg << std::endl (the time of the clock is left out)
Line(msg, level) ==
    [color |-> colorForLevel(level), tag |-> logLevelToString(level),
     msg |-> msg]

LogCall(msg, level) ==
    [level |-> level, msg |-> msg, threshold |-> currentLogLevel,
     stream |-> outputStream]

\* static void init(std::ostream& os = std::cout) { outputStream = &os; }
Logger_init(os) ==
    /\ outputStream' = os
    /\ UNCHANGED <<currentLogLevel, cout, testStream, logged>>
    /\ UNCHANGED <<trigVars, radarVars, debug, calc, shotVars, instVars>>

\* void Logger::setLogLevel(LogLevel level)
Logger_setLogLevel(level) ==
    /\ currentLogLevel' = level
    /\ UNCHANGED <<outputStream, cout, testStream, logged>>
    /\ UNCHANGED <<trigVars, radarVars, debug, calc, shotVars, instVars>>

\* (mutant) every message is written, whatever its level
Logger_log_unfiltered(msg, level) ==
    /\ Len(logged) < MaxLog
    /\ logged' = Append(logged, LogCall(msg, level))
    /\ cout' = Append(cout, Line(msg, level))
    /\ UNCHANGED <<currentLogLevel, outputStream, testStream>>
    /\ UNCHANGED <<trigVars, radarVars, debug, calc, shotVars, instVars>>

\* void Logger::log(const std::string& msg, LogLevel level): returns at once
\* if (level < currentLogLevel); otherwise the line goes to std::cout
Logger_log(msg, level) ==
    /\ Len(logged) < MaxLog
    /\ logged' = Append(logged, LogCall(msg, level))
    /\ cout' = IF LevelValue(level) < LevelValue(currentLogLevel)
               THEN cout
               ELSE Append(cout, Line(msg, level))
    /\ UNCHANGED <<currentLogLevel, outputStream, testStream>>
    /\ UNCHANGED <<trigVars, radarVars, debug, calc, shotVars, instVars>>

\* void Logger::info(const std::string& msg)
Logger_info(msg) == Logger_log(msg, "INFO")

\* void Logger::debug(const std::string& msg)
Logger_debug(msg) == Logger_log(msg, "DEBUG")

\* void Logger::error(const std::string& msg)
Logger_error(msg) == Logger_log(msg, "ERROR")

\* LogLevel Logger::currentLogLevel = LogLevel::DEBUG; outputStream has no
\* initialiser, and nothing was written
LoggerInit ==
    /\ currentLogLevel = "DEBUG"
    /\ outputStream = "null"
    /\ cout = <<>>
    /\ testStream = <<>>
    /\ logged = <<>>

LoggerNext ==
    \/ \E os \in Streams : Logger_init(os)
    \/ \E level \in LogLevels : Logger_setLogLevel(level)
    \/ \E msg \in Messages : Logger_info(msg)
    \/ \E msg \in Messages : Logger_debug(msg)
    \/ \E msg \in Messages : Logger_error(msg)

\* std::atomic<int> shotCount(0); std::vector<ShotData> shotHistory; no
\* thread is inside the measurement callback
ShotInit ==
    /\ shotHistory = <<>>
    /\ shotCount = 0
    /\ pushing = [t \in Pipelines |-> -1]

\* no thread holds the mutex of the second RadarManager
InstanceInit == testManager_mutex = {}

Init ==
    /\ TriggerInit /\ RadarInit /\ DebugInit /\ CalcInit /\ LoggerInit
    /\ ShotInit /\ InstanceInit

TriggerSpec == Init /\ [][TriggerNext]_vars

RadarSpec == Init /\ [][RadarNext]_vars

MainSpec == Init /\ [][MainNext]_vars

(***************************************************************************)
(* The radar coordinator under fair scheduling: the calls of init(),       *)
(* cleanup(), setMeasurementCallback() and startMeasurement() by the       *)
(* foreground thread beside the background threads.  A thread that can     *)
(* take its next step takes it, and a thread blocked in                    *)
(* std::lock_guard gets the mutex if it is released again and again.       *)
(* Whether the foreground thread makes a further call is left open.        *)
(***************************************************************************)

\* the next step of background thread t
PipeStep(t) ==
    \/ \E throws \in BOOLEAN : pipe_read(t, throws)
    \/ pipe_lock(t)
    \/ pipe_check(t)
    \/ pipe_dc(t)
    \/ pipe_exec(t)
    \/ \E throws \in BOOLEAN : pipe_scan(t, throws)
    \/ \E outcome \in CallbackOutcomes : pipe_deliver(t, outcome)
    \/ pipe_clear(t)

\* the next step of a call the foreground thread is in
CallStep ==
    \/ init_in
    \/ init_out
    \/ \E ok \in BOOLEAN : init_plan(ok)
    \/ init_done
    \/ cleanup_spin
    \/ cleanup_lock
    \/ cleanup_free
    \/ cleanup_return
    \/ start_spawn

LiveNext ==
    \/ \E hw \in HwOutcomes : init_enter(hw)
    \/ init_in
    \/ init_out
    \/ \E ok \in BOOLEAN : init_plan(ok)
    \/ init_done
    \/ cleanup_enter
    \/ cleanup_spin
    \/ cleanup_lock
    \/ cleanup_free
    \/ cleanup_return
    \/ setMeasurementCallback
    \/ start_store
    \/ start_spawn
    \/ \E t \in Pipelines, throws \in BOOLEAN : pipe_read(t, throws)
    \/ \E t \in Pipelines : pipe_lock(t)
    \/ \E t \in Pipelines : pipe_check(t)
    \/ \E t \in Pipelines : pipe_dc(t)
    \/ \E t \in Pipelines : pipe_exec(t)
    \/ \E t \in Pipelines, throws \in BOOLEAN : pipe_scan(t, throws)
    \/ \E t \in Pipelines, outcome \in CallbackOutcomes :
         pipe_deliver(t, outcome)
    \/ \E t \in Pipelines : pipe_clear(t)

FairScheduling ==
    /\ \A t \in Pipelines : WF_vars(PipeStep(t)) /\ SF_vars(pipe_lock(t))
    /\ WF_vars(CallStep)
    /\ SF_vars(cleanup_lock)

LiveSpec == Init /\ [][LiveNext]_vars /\ FairScheduling

(***************************************************************************)
(* The radar coordinator with its debug measurement: the foreground thread *)
(* calls init(), setMeasurementCallback(), startMeasurement() and          *)
(* startDebugMeasurement() in any order, beside the background threads.    *)
(***************************************************************************)

DebugNext ==
    \/ \E hw \in HwOutcomes : init_enter(hw)
    \/ init_in
    \/ init_out
    \/ \E ok \in BOOLEAN : init_plan(ok)
    \/ init_done
    \/ setMeasurementCallback
    \/ start_store
    \/ start_spawn
    \/ \E t \in Pipelines, throws \in BOOLEAN : pipe_read(t, throws)
    \/ \E t \in Pipelines : pipe_lock(t)
    \/ \E t \in Pipelines : pipe_check(t)
    \/ \E t \in Pipelines : pipe_dc(t)
    \/ \E t \in Pipelines : pipe_exec(t)
    \/ \E t \in Pipelines, throws \in BOOLEAN : pipe_scan(t, throws)
    \/ \E t \in Pipelines, outcome \in CallbackOutcomes :
         pipe_deliver(t, outcome)
    \/ \E t \in Pipelines : pipe_clear(t)
    \/ startDebugMeasurement_samples
    \/ startDebugMeasurement_process
    \/ processSamples_lock
    \/ processSamples_check
    \/ processSamples_dc
    \/ processSamples_exec
    \/ \E throws \in BOOLEAN : processSamples_scan(throws)
    \/ \E outcome \in CallbackOutcomes :
         startDebugMeasurement_deliver(outcome)

DebugSpec == Init /\ [][DebugNext]_vars

\* the computations, each applied to one of its inputs
CalcSpecInit ==
    /\ TriggerInit /\ RadarInit /\ DebugInit /\ LoggerInit /\ ShotInit
    /\ InstanceInit
    /\ \E kind \in InputKinds : calc \in CalcInputs(kind)

CalcSpec == CalcSpecInit /\ [][CalcNext]_vars

\* the loop of processSamples() over the bins, pass by pass
ScanSpecInit ==
    /\ TriggerInit /\ RadarInit /\ DebugInit /\ LoggerInit /\ ShotInit
    /\ InstanceInit
    /\ calc \in ScanInputs

ScanSpec == ScanSpecInit /\ [][ScanNext]_vars

\* the measurement callback of main() in the background threads
ShotSpec == Init /\ [][ShotNext]_vars

\* one RadarManager whose measurements are started one after the other
SingleFlightSpec == Init /\ [][SingleFlightNext]_vars

\* two RadarManager instances over the same static buffers
InstancesSpec == Init /\ [][InstancesNext]_vars

\* the logger under its configuration calls and messages
LoggerSpec == Init /\ [][LoggerNext]_vars

(***************************************************************************)
(* Properties of the trigger state machine, checked under TriggerSpec.     *)
(***************************************************************************)

\* the timestamp handed to the most recent callback invocation
LastCb == cbLog[Len(cbLog)]

\* C1: update() in IDLE with the sensor reading active and a callback
\* registered sets the state to TRIGGERED, records the time of the call as
\* the trigger timestamp and invokes the callback exactly once, within the
\* call, with that timestamp.
C1_IdleActiveFires ==
    [][\A v \in GpioValues :
         (state = "IDLE" /\ line /\ v = 1 /\ triggerCallback /\ update(v))
         => /\ state' = "TRIGGERED"
            /\ lastTriggerTime' = now
            /\ opResult'.callbackCalls = 1
            /\ ~opResult'.raised
            /\ cbLog' # <<>>
            /\ cbLog'[Len(cbLog')] = lastTriggerTime']_vars

\* C1 happened: an update() has just fired the callback at a time later
\* than construction, with the recorded timestamp
C1_Witness ==
    /\ state = "TRIGGERED" /\ ~simUsed
    /\ opResult.callbackCalls = 1 /\ opResult.pinReads = 1
    /\ cbLog # <<>> /\ LastCb = lastTriggerTime /\ lastTriggerTime = now
    /\ now > 0

\* C2: update() in TRIGGERED moves to COOLDOWN in that one call, whatever
\* the sensor level and the elapsed time, and invokes no callback.
C2_TriggeredPassesThrough ==
    [][\A v \in GpioValues :
         (state = "TRIGGERED" /\ update(v))
         => /\ state' = "COOLDOWN"
            /\ opResult'.callbackCalls = 0
            /\ cbLog' = cbLog]_vars

\* C2 happened: the single update() after a callback entered COOLDOWN
\* although the cooldown period had already elapsed
C2_Witness ==
    /\ state = "COOLDOWN" /\ cbLog # <<>> /\ updatesSinceCb = 1
    /\ LastCb = lastTriggerTime
    /\ now - lastTriggerTime >= cooldownPeriod
    /\ cooldownEntry = now

\* C3: update() in COOLDOWN stays in COOLDOWN while less than 500 ms have
\* passed since the trigger timestamp and moves to IDLE once at least
\* 500 ms have passed since it; neither invokes the callback.
C3_CooldownFromTimestamp ==
    [][\A v \in GpioValues :
         (state = "COOLDOWN" /\ update(v))
         => /\ (now - lastTriggerTime < cooldownPeriod => state' = "COOLDOWN")
            /\ (now - lastTriggerTime >= cooldownPeriod => state' = "IDLE")
            /\ opResult'.callbackCalls = 0
            /\ cbLog' = cbLog
            /\ lastTriggerTime' = lastTriggerTime]_vars

\* C3 happened: the machine is back in IDLE exactly 500 ms after the
\* trigger timestamp, less than 500 ms after it entered COOLDOWN
C3_Witness ==
    /\ state = "IDLE" /\ cbLog # <<>> /\ LastCb = lastTriggerTime
    /\ updatesSinceCb = 2
    /\ now - lastTriggerTime = cooldownPeriod
    /\ cooldownEntry > lastTriggerTime

\* C4: simulateTrigger() in any state sets the trigger timestamp to the
\* current time and the state to TRIGGERED and invokes the registered
\* callback exactly once with that timestamp, without reading the sensor.
C4_SimulateAlwaysFires ==
    /\ [](ENABLED simulateTrigger)
    /\ [][(triggerCallback /\ simulateTrigger)
          => /\ lastTriggerTime' = now
             /\ state' = "TRIGGERED"
             /\ opResult'.callbackCalls = 1
             /\ opResult'.pinReads = 0
             /\ cbLog' # <<>>
             /\ cbLog'[Len(cbLog')] = now]_vars

\* C4 happened: simulateTrigger() fired the callback less than 500 ms after
\* the callback before it, so from TRIGGERED or COOLDOWN
C4_Witness ==
    /\ simUsed /\ state = "TRIGGERED" /\ opResult.callbackCalls = 1
    /\ opResult.pinReads = 0
    /\ Len(cbLog) = 2 /\ cbLog[2] - cbLog[1] < cooldownPeriod
    /\ cbLog[2] > cbLog[1]
    /\ gapUpdates >= 1

\* C5: while only update() is used, two consecutive callback invocations
\* carry timestamps at least 500 ms apart and have at least two update()
\* calls between them, and no update() in TRIGGERED or COOLDOWN invokes
\* the callback.
C5_Debounce ==
    /\ []((~simUsed /\ Len(cbLog) = 2)
           => (cbLog[2] - cbLog[1] >= cooldownPeriod /\ gapUpdates >= 2))
    /\ [][\A v \in GpioValues :
            (~simUsed /\ state # "IDLE" /\ update(v))
            => (opResult'.callbackCalls = 0 /\ cbLog' = cbLog)]_vars

\* C5 happened: two callbacks from update() alone, exactly 500 ms apart
C5_Witness ==
    /\ ~simUsed /\ Len(cbLog) = 2
    /\ cbLog[2] - cbLog[1] = cooldownPeriod
    /\ gapUpdates = 2

\* C6: once a callback has fired and no read has been inactive since, an
\* update() in IDLE with the sensor still active fires the callback again
\* and moves to TRIGGERED.
C6_LevelTriggered ==
    [][\A v \in GpioValues :
         (/\ state = "IDLE" /\ cbLog # <<>> /\ ~inactiveSinceCb
          /\ line /\ v = 1 /\ triggerCallback /\ update(v))
         => (state' = "TRIGGERED" /\ opResult'.callbackCalls = 1
             /\ ~gapInactive')]_vars

\* C6 happened: the callback fired a second time through update() with no
\* inactive read between the two invocations
C6_Witness ==
    /\ ~simUsed /\ Len(cbLog) = 2 /\ ~gapInactive /\ gapUpdates = 2
    /\ state = "TRIGGERED" /\ opResult.callbackCalls = 1

\* C7: update() in IDLE with the sensor reading inactive leaves the state
\* IDLE and the trigger timestamp unchanged and invokes no callback.
C7_IdleInactiveFrame ==
    [][\A v \in GpioValues :
         (state = "IDLE" /\ line /\ v = 0 /\ update(v))
         => /\ state' = "IDLE"
            /\ lastTriggerTime' = lastTriggerTime
            /\ opResult'.callbackCalls = 0
            /\ cbLog' = cbLog]_vars

\* C7 happened: an update() read the initialised line, found it inactive
\* and stayed in IDLE
C7_Witness ==
    /\ state = "IDLE" /\ line /\ triggerCallback
    /\ opResult.pinReads = 1 /\ ~opResult.errorLogged
    /\ opResult.callbackCalls = 0 /\ inactiveSinceCb

\* C8: a failing sensor read (no line, or the line read returning an
\* error) counts as not active: update() in IDLE stays in IDLE with no
\* callback; and update() can be called in every state and never lets an
\* error reach its caller.
C8_ReadFailureIsInactive ==
    /\ [](\A v \in GpioValues : ENABLED update(v))
    /\ [](~opResult.raised)
    /\ [][\A v \in GpioValues :
            (state = "IDLE" /\ (~line \/ v < 0) /\ update(v))
            => /\ state' = "IDLE"
               /\ opResult'.callbackCalls = 0
               /\ opResult'.errorLogged
               /\ cbLog' = cbLog]_vars

\* C8 happened: an update() read the initialised line, the read failed,
\* and the machine stayed in IDLE without raising
C8_Witness ==
    /\ state = "IDLE" /\ line /\ triggerCallback
    /\ opResult.pinReads = 1 /\ opResult.errorLogged
    /\ opResult.callbackCalls = 0 /\ ~opResult.raised

(***************************************************************************)
(* Properties of the radar coordinator, checked under RadarSpec.           *)
(***************************************************************************)

\* C9: cleanup() neither frees the transform resources nor returns while a
\* background thread started by startMeasurement() is still running,
\* however many were started.
C9_CleanupWaitsForAll ==
    [][(\/ mainPc = "cleanup_free" /\ fftw_initialized /\ ~fftw_initialized'
        \/ mainPc = "cleanup_return" /\ mainPc' = "idle")
       => \A t \in Pipelines : ~Running(t)]_vars

\* C10: the buffers and the plan are never used after they were freed,
\* never freed while a processSamples() call works on them (from the DC
\* removal to the end of the scan), and never freed twice; at most one
\* thread holds the mutex, a thread past the lock holds it, and a thread
\* working on the buffers finds the resources initialised and live.
C10_NoUseAfterFreeNoDoubleFree ==
    /\ faults \cap {"use_after_free", "double_free", "free_in_use"} = {}
    /\ Cardinality(fftw_mutex) <= 1
    /\ \A t \in Pipelines : InCritical(t) => fftw_mutex = {t}
    /\ mainPc \in {"cleanup_free", "cleanup_return"} => fftw_mutex = {0}
    /\ \A t \in Pipelines :
         InTransform(t) =>
            /\ fftw_initialized
            /\ fftw_in = "live" /\ fftw_out = "live" /\ fftw_plan_r2c = "live"

\* C10 happened: cleanup() has passed its wait on the flag and is held at
\* the mutex while a background thread scans the output buffer; an earlier
\* thread had found the resources missing and returned the zero result
C10_Witness ==
    /\ mainPc = "cleanup_lock"
    /\ ~measurement_in_progress
    /\ \E t \in Pipelines : thr[t].pc = "scan"
    /\ \E t \in Pipelines : thr[t].pc = "done" /\ thr[t].result = "zero"

(***************************************************************************)
(* Properties of the measurement pipeline, checked under RadarSpec.        *)
(***************************************************************************)

\* C11: at no time are two processSamples() calls between the DC-removal
\* copy into the input buffer and the end of the scan of the output
\* buffer; a call that is about to transform finds its own samples in the
\* input buffer, a call that scans finds its own spectrum in the output
\* buffer, and the value a measurement returns was read from its own
\* spectrum.
C11_TransformsSerialised ==
    /\ Cardinality({t \in Pipelines : InTransform(t)})
          + (IF MainInTransform THEN 1 ELSE 0) <= 1
    /\ \A t \in Pipelines :
         /\ thr[t].pc = "exec" => inData = thr[t].id
         /\ thr[t].pc = "scan" => outData = thr[t].id
         /\ thr[t].result = "value" => thr[t].of = thr[t].id
    /\ mainPc = "ps_exec" => inData = MainTag
    /\ mainPc = "ps_scan" => outData = MainTag

\* C11 happened: a background thread scans its spectrum while a second
\* one, started while the first one ran, and a processSamples() call of
\* the foreground thread wait for the lock
C11_Witness ==
    /\ mainPc = "ps_lock"
    /\ \E t, u \in Pipelines :
         /\ thr[t].pc = "scan"
         /\ thr[u].pc = "lock"
         /\ outData = thr[t].id

\* C12: at no time is more than one acquisition+processing pipeline
\* running, whatever the sequence of startMeasurement() calls.
C12_AtMostOneInFlight ==
    Cardinality({t \in Pipelines : Running(t)}) <= 1

\* a background thread has come to its end: it ran to the end of the thread
\* function or an exception left the thread function
Ended(t) == thr[t].pc \in {"done", "uncaught"}

\* C13: after any background pipeline ends, whether it succeeded or an
\* error was raised in the acquisition, the processing or the callback,
\* measurement_in_progress is false and the process was not terminated.
C13_FlagClearedNeverTerminates ==
    [][\A t \in Pipelines :
         (Running(t) /\ ~Ended(t) /\ Ended(t)')
         => /\ ~measurement_in_progress'
            /\ "terminate" \notin faults']_vars

\* C14: a measurement whose acquisition or processing raised an error does
\* not invoke the measurement callback; the error is caught in the thread
\* function, which goes on to its last statement and ends.
C14_FailedMeasurementSilent ==
    \A t \in Pipelines :
       thr[t].threw \in {"read", "process"} =>
          /\ ~thr[t].delivered
          /\ thr[t].carried = <<>>
          /\ thr[t].pc \in {"clear", "done"}

\* C14 happened: with a callback registered, one measurement failed in
\* readSamples() and another in processSamples(); both threads have ended
\* and the callback was never invoked
C14_Witness ==
    /\ measurementCallback
    /\ invoked = 0
    /\ \E t, u \in Pipelines :
         /\ thr[t].pc = "done" /\ thr[t].threw = "read"
         /\ thr[u].pc = "done" /\ thr[u].threw = "process"

\* measurements that are started and have neither invoked nor passed by the
\* callback yet
BeforeCallback ==
    Cardinality({t \in Pipelines :
                   thr[t].pc \in {"read", "lock", "check", "dc", "exec",
                                  "scan", "deliver"}})
    + (IF mainPc = "start_spawn" THEN 1 ELSE 0)

\* C15: while every measurement found a callback registered and none
\* raised an error before the callback, the callback was invoked exactly
\* once for every startMeasurement() call that has come to its callback:
\* N starts give N invocations.  Each invocation carried the result of
\* processSamples() for that measurement, which is the zero result or a
\* value read from the spectrum of the samples acquired for that call.
C15_OneCallbackPerStart ==
    /\ invoked + skipped + BeforeCallback = started
    /\ skipped = 0 =>
         \A t \in Pipelines :
            thr[t].pc \in {"clear", "done", "uncaught"} =>
               /\ thr[t].delivered
               /\ thr[t].result \in {"zero", "value"}
               /\ thr[t].carried = <<thr[t].result, thr[t].of>>
               /\ thr[t].result = "value" => thr[t].of = thr[t].id

\* C15 happened: MaxStarts measurements were started with a callback
\* registered, all have ended without an error, the callback was invoked
\* MaxStarts times, and the last two carried a value and the zero result
C15_Witness ==
    /\ started = MaxStarts
    /\ invoked = MaxStarts
    /\ skipped = 0
    /\ mainPc = "idle"
    /\ \A t \in Pipelines : thr[t].pc = "done" /\ thr[t].threw = "none"
    /\ \E t, u \in Pipelines :
         /\ thr[t].carried = <<"value", thr[t].id>>
         /\ thr[u].carried = <<"zero", 0>>

\* C17: processSamples() with a sample vector whose length is not
\* DEFAULT_SAMPLE_COUNT returns the zero result in the same step, without
\* taking fftw_mutex and without an access to the buffers or the plan; it
\* can make this step whoever holds the mutex.
C17_SizeMismatchShortCircuit ==
    /\ [][\A n \in SampleCounts :
            (n # DEFAULT_SAMPLE_COUNT /\ processSamples_size(n))
            => /\ mainResult' = "zero"
               /\ mainPc' = "idle"
               /\ 0 \notin fftw_mutex'
               /\ UNCHANGED <<fftw_mutex, inData, outData, fftwVars,
                              faults>>]_vars
    /\ [](mainPc = "idle" =>
            \A n \in SampleCounts \ {DEFAULT_SAMPLE_COUNT} :
               ENABLED processSamples_size(n))

\* C17 happened: after a processSamples() call of the foreground thread
\* that went through the transform, a call with a wrong length has returned
\* the zero result; the resources are available, a background thread holds
\* the mutex, and the buffers still hold the data of the earlier call
C17_Witness ==
    /\ mainPc = "idle" /\ mainResult = "zero"
    /\ inData = MainTag /\ outData = MainTag
    /\ ResourcesAvailable
    /\ \E t \in Pipelines : thr[t].pc = "dc" /\ fftw_mutex = {t}

\* C18: with fftw_initialized false (init() never ran or failed, or
\* cleanup() freed the resources) a processSamples() call with
\* DEFAULT_SAMPLE_COUNT samples returns the zero result at its test of the
\* resources, with no access to the buffers or the plan and no memory
\* error; the thread of startMeasurement() then hands this zero result to
\* the registered callback and ends.
C18_UninitialisedGivesZero ==
    /\ [][\A t \in Pipelines :
            (thr[t].pc = "check" /\ ~fftw_initialized /\ pipe_check(t))
            => /\ thr'[t].pc = "deliver"
               /\ thr'[t].result = "zero"
               /\ t \notin fftw_mutex'
               /\ UNCHANGED <<inData, outData, fftwVars, faults>>]_vars
    /\ [][(mainPc = "ps_check" /\ ~fftw_initialized /\ processSamples_check)
          => /\ mainResult' = "zero"
             /\ mainPc' = "idle"
             /\ 0 \notin fftw_mutex'
             /\ UNCHANGED <<inData, outData, fftwVars, faults>>]_vars
    /\ [][\A t \in Pipelines :
            (/\ thr[t].pc = "deliver" /\ thr[t].result = "zero"
             /\ measurementCallback /\ thr'[t].pc # "deliver")
            => /\ thr'[t].delivered
               /\ thr'[t].carried = <<"zero", 0>>
               /\ invoked' = invoked + 1]_vars
    /\ [](\A t \in Pipelines :
            thr[t].result = "zero" => thr[t].pc \in {"deliver", "clear",
                                                     "done", "uncaught"})

\* C18 happened: init() failed at the plan and left fftw_in and fftw_out
\* dangling; a measurement has handed the zero result to the callback and
\* has ended, and no memory error occurred
C18_Witness ==
    /\ mainResult = "plan_failed"
    /\ ~fftw_initialized
    /\ fftw_in = "freed" /\ fftw_out = "freed" /\ fftw_plan_r2c = "null"
    /\ faults = {}
    /\ started = 1 /\ invoked = 1
    /\ \E t \in Pipelines :
         /\ thr[t].pc = "done"
         /\ thr[t].carried = <<"zero", 0>>

\* C19: init() with the resources initialised returns without an
\* allocation and without a new plan, and leaves the handles, the flag and
\* the contents of the buffers as they are; the allocating steps of init()
\* run only with fftw_initialized false, and an init() whose plan creation
\* fails returns with fftw_initialized false.
C19_InitIdempotent ==
    /\ [][\A hw \in HwOutcomes :
            (fftw_initialized /\ init_enter(hw))
            => /\ mainPc' = "idle"
               /\ UNCHANGED <<fftwVars, inData, outData, faults>>]_vars
    /\ [](mainPc \in {"init_in", "init_out", "init_plan", "init_done"}
            => ~fftw_initialized)
    /\ [][(mainPc = "init_done" /\ fftw_plan_r2c = "null" /\ init_done)
          => (mainPc' = "idle" /\ ~fftw_initialized')]_vars
    /\ []("leak" \notin faults)

\* C19 happened: init() was called with the resources initialised and the
\* buffers holding the data of the second measurement, and has returned
C19_Witness ==
    /\ mainPc = "idle" /\ mainResult = "kept"
    /\ fftw_initialized
    /\ fftw_in = "live" /\ fftw_out = "live" /\ fftw_plan_r2c = "live"
    /\ started = 2 /\ inData = 2 /\ outData = 2

\* C19 happened (failed plan): a second init() has failed at the plan
\* after a cleanup(); the resources are marked uninitialised
C19_WitnessFailedPlan ==
    /\ mainPc = "idle" /\ mainResult = "plan_failed"
    /\ ~fftw_initialized /\ fftw_plan_r2c = "null"
    /\ started = 1 /\ invoked = 1
    /\ \E t \in Pipelines : thr[t].carried = <<"value", 1>>

\* C20: cleanup() with the resources uninitialised frees nothing and
\* leaves them uninitialised, and in any sequence of init() and cleanup()
\* calls every cleanup() returns with fftw_initialized false and fftw_in,
\* fftw_out and fftw_plan_r2c null, with nothing freed twice and nothing
\* leaked.
C20_CleanupLeavesNothing ==
    /\ [][(mainPc = "cleanup_free" /\ ~fftw_initialized /\ cleanup_free)
          => UNCHANGED <<fftwVars, faults>>]_vars
    /\ [][(mainPc = "cleanup_return" /\ cleanup_return)
          => /\ ~fftw_initialized'
             /\ fftw_in' = "null"
             /\ fftw_out' = "null"
             /\ fftw_plan_r2c' = "null"
             /\ faults' \cap {"double_free", "leak"} = {}]_vars

(***************************************************************************)
(* Properties of the wiring in main(), checked under MainSpec.             *)
(***************************************************************************)

\* C16: with startMeasurement() called from the trigger callback, the
\* trigger callback of an event is invoked before the measurement it
\* starts exists, hence before its measurement callback: there are never
\* more measurements than trigger callbacks, every thread runs the
\* measurement of a trigger callback already invoked, and a step that
\* invokes the measurement callback finds that trigger callback invoked.
C16_TriggerBeforeMeasurement ==
    /\ [](started <= fired /\ invoked <= fired)
    /\ [](\A t \in Pipelines : thr[t].id <= fired)
    /\ [][invoked' > invoked =>
             /\ fired >= 1
             /\ \E t \in Pipelines :
                  /\ thr[t].pc = "deliver"
                  /\ thr'[t].delivered
                  /\ thr[t].id \in 1..fired
                  /\ LastCb <= now]_vars

\* C16 happened: the second trigger callback was invoked a cooldown after
\* the first, both started a measurement, and both measurement callbacks
\* were invoked
C16_Witness ==
    /\ fired = 2 /\ started = 2 /\ invoked = 2
    /\ Len(cbLog) = 2 /\ cbLog[2] - cbLog[1] >= cooldownPeriod
    /\ \A t \in Pipelines : thr[t].pc = "done" /\ thr[t].delivered


(***************************************************************************)
(* Properties of termination, checked under LiveSpec.                      *)
(***************************************************************************)

\* C21: under fair scheduling every background pipeline that
\* startMeasurement() spawned comes to its end, and a cleanup() that the
\* foreground thread called returns (the foreground thread calls
\* startMeasurement() itself, so no measurement starts during cleanup()).
C21_PipelinesEndCleanupReturns ==
    /\ \A t \in Pipelines : (thr[t].pc = "read") ~> Ended(t)
    /\ (mainPc = "cleanup_spin") ~> (mainPc = "idle")


(***************************************************************************)
(* Properties of startMeasurement() in main(), checked under MainSpec.     *)
(***************************************************************************)

\* C22: startMeasurement() never waits: inside the trigger callback its
\* first step can always be taken, and once the flag is stored the spawn
\* can always be taken, whoever holds fftw_mutex and wherever the
\* background threads are; its steps neither take nor release fftw_mutex,
\* and when it returns the thread it spawned has not yet read a sample.
C22_StartNeverBlocks ==
    /\ []((InTriggerCallback /\ mainPc = "idle")
            => ENABLED main_trigger_callback)
    /\ []((mainPc = "start_spawn") => ENABLED start_spawn)
    /\ [][(main_trigger_callback \/ start_spawn)
            => /\ fftw_mutex' = fftw_mutex
               /\ 0 \notin fftw_mutex
               /\ \A t \in Pipelines :
                    thr'[t] # thr[t] => thr'[t].pc = "read"]_vars
    /\ [][start_spawn
            => /\ mainPc' = "idle"
               /\ \E t \in Pipelines :
                    /\ thr'[t] = NewThread("read", started)
                    /\ \A u \in Pipelines \ {t} : thr'[u] = thr[u]]_vars

\* the trigger callback is inside startMeasurement() while the thread of
\* an earlier measurement holds fftw_mutex in its transform
C22_Witness ==
    /\ mainPc = "start_spawn"
    /\ fired = 2
    /\ \E t \in Pipelines : InTransform(t) /\ fftw_mutex = {t}


(***************************************************************************)
(* Properties of the debug measurement, checked under DebugSpec.           *)
(***************************************************************************)

\* the foreground thread takes a step inside startDebugMeasurement()
DebugStep == debug.in /\ mainPc' # mainPc

\* C23: startDebugMeasurement() is synchronous.  It synthesises
\* DEFAULT_SAMPLE_COUNT samples and hands them to processSamples() on the
\* calling thread; while the call is open the callback has not been
\* invoked; when a callback is registered and no error is raised, the call
\* returns with exactly one invocation made by the calling thread, of the
\* result processSamples() gave; and the call starts no background thread
\* and leaves the in-progress flag alone.
C23_DebugIsSynchronous ==
    /\ [](debug.in => /\ debug.samples = DEFAULT_SAMPLE_COUNT
                      /\ debug.calls = 0)
    /\ [][startDebugMeasurement_process => mainPc' = "ps_lock"]_vars
    /\ [][\A outcome \in CallbackOutcomes :
            (/\ startDebugMeasurement_deliver(outcome)
             /\ measurementCallback
             /\ mainResult # "raised"
             /\ outcome = "returns")
            => /\ debug'.calls = 1
               /\ debug'.ended = "returned"
               /\ mainResult \in {"value", "zero"}
               /\ mainPc' = "idle"
               /\ invoked' = invoked]_vars
    /\ [][DebugStep
            => /\ started' = started
               /\ measurement_in_progress' = measurement_in_progress
               /\ thr' = thr]_vars
    /\ [][(debug.in \/ debug'.in)
            => \A t \in Pipelines : ~Running(t) => ~Running(t)']_vars

\* a debug measurement has returned after it handed the result of a
\* transform to the callback once, and no background thread was ever
\* started
C23_Witness ==
    /\ ~debug.in
    /\ debug.ended = "returned"
    /\ debug.calls = 1
    /\ mainResult = "value"
    /\ measurementCallback
    /\ started = 0


(***************************************************************************)
(* Properties of the computations, checked under CalcSpec.                 *)
(***************************************************************************)

\* the bins the scan of processSamples() examines
Scanned == 1..(DEFAULT_SAMPLE_COUNT \div 2 - 1)

\* bin d has the largest magnitude of the scanned bins of out
Dominant(out, d) ==
    /\ d \in Scanned
    /\ \A i \in Scanned : Magnitude(out[i]) <= Magnitude(out[d])

\* the result r of processSamples() is derived from bin d of out alone
DerivedFrom(r, out, d) ==
    /\ r.speedMPS
         = frequencyToSpeed(BinFrequency(d, DEFAULT_SAMPLE_FREQ))
    /\ r.speedMPH = ToMPH(r.speedMPS)
    /\ r.signalStrength = FloatOfMagnitude(Magnitude(out[d]))

\* C24 as stated: the result of processSamples() is derived from a bin of
\* maximum magnitude among the scanned bins: speedMPS is frequencyToSpeed
\* of that bin's frequency, speedMPH is speedMPS * 2.23694 and
\* signalStrength is that bin's magnitude.
C24_SpeedFromDominantBin_AsStated ==
    calc.op = "processSamples"
    => \E d \in Scanned : Dominant(calc.arg, d)
                          /\ DerivedFrom(calc.ret, calc.arg, d)

\* C24: when some scanned bin has a positive magnitude, the result of
\* processSamples() is derived from the first bin of maximum magnitude
\* among the scanned bins: speedMPS is frequencyToSpeed of that bin's
\* frequency, speedMPH is speedMPS * 2.23694 and signalStrength is that
\* bin's magnitude; when every scanned bin has magnitude zero, no bin is
\* selected and speed and signal strength are zero.
C24_SpeedFromDominantBin ==
    calc.op = "processSamples"
    => IF \E i \in Scanned : Magnitude(calc.arg[i]) > 0
       THEN \E d \in Scanned :
              /\ Dominant(calc.arg, d)
              /\ \A i \in Scanned :
                   i < d => Magnitude(calc.arg[i]) < Magnitude(calc.arg[d])
              /\ DerivedFrom(calc.ret, calc.arg, d)
       ELSE /\ calc.ret.speedMPS = FloatZero
            /\ calc.ret.speedMPH = FloatZero
            /\ calc.ret.signalStrength = FloatZero

\* a result was made from a spectrum whose largest scanned magnitude
\* occurs at two bins, beside larger values at the bins 0 and n/2 that the
\* scan leaves out
C24_Witness ==
    /\ calc.op = "processSamples"
    /\ Magnitude(calc.arg[2]) = 13
    /\ Magnitude(calc.arg[386]) = 13
    /\ Magnitude(calc.arg[1]) = 5
    /\ Magnitude(calc.arg[0]) = 13
    /\ calc.ret.speedMPS # FloatZero


\* the distance of the floats a and b in units of the last place of a
\* is at most k
WithinUlps(a, b, k) ==
    LET e == IF a.e < b.e THEN a.e ELSE b.e
        x == a.m * Pow2(a.e - e)
        y == b.m * Pow2(b.e - e)
        d == IF x < y THEN y - x ELSE x - y
    IN  d <= k * Pow2(a.e - e)

Acquired(samples, count) ==
    /\ DOMAIN samples = 1..count
    /\ \A i \in 1..count : samples[i] \in 0..1023

\* C27: readSamples(count, rate) returns count samples, each in 0..1023;
\* the synthetic generators return as many samples as asked for (that of
\* the debug measurement DEFAULT_SAMPLE_COUNT), each clamped to 0..1023.
C27_ExactCountTenBitSamples ==
    /\ calc.op \in {"readSamples", "testSamples"}
          => Acquired(calc.ret, calc.arg.numSamples)
    /\ calc.op = "debugSamples" => Acquired(calc.ret, DEFAULT_SAMPLE_COUNT)

\* DEFAULT_SAMPLE_COUNT samples were read from the hardware, one of them
\* from a reply whose buffer[1] has bits set above the two that are kept
C27_Witness ==
    /\ calc.op = "readSamples"
    /\ calc.arg.numSamples = DEFAULT_SAMPLE_COUNT
    /\ \E i \in 1..DEFAULT_SAMPLE_COUNT :
          /\ calc.arg.answers[i] = <<255, 255>>
          /\ calc.ret[i] = 1023


(***************************************************************************)
(* Properties of the logger, checked under LoggerSpec.                     *)
(***************************************************************************)

\* the call passed the level filter
Passes(call) == LevelValue(call.level) >= LevelValue(call.threshold)

\* the lines of the calls, in the order of the calls
LinesOf(calls) ==
    [i \in 1..Len(calls) |-> Line(calls[i].msg, calls[i].level)]

C29_ConfiguredStreamReceives ==
    (\A i \in 1..Len(logged) : logged[i].stream \in Streams)
        => \A os \in Streams :
              (IF os = "cout" THEN cout ELSE testStream)
                  = LinesOf(SelectSeq(logged,
                        LAMBDA c : Passes(c) /\ c.stream = os))


(***************************************************************************)
(* Properties of the lock in the pipeline, checked under RadarSpec.        *)
(***************************************************************************)

\* C30: a pipeline holds the transform-resources lock only inside the
\* critical section of processSamples(): never while it acquires samples,
\* delivers the result to the callback or clears the flag, and always
\* between taking the lock and leaving processSamples().
C30_LockOnlyInsideProcessSamples ==
    \A t \in Pipelines :
        /\ t \in fftw_mutex <=> InCritical(t)
        /\ thr[t].pc \in {"read", "deliver", "clear"} => t \notin fftw_mutex

\* one pipeline is acquiring samples while another one transforms under
\* the lock
C30_Witness ==
    \E t, u \in Pipelines :
        /\ thr[t].pc = "read"
        /\ InTransform(u)
        /\ fftw_mutex = {u}


(***************************************************************************)
(* Properties of the loop over the bins, checked under ScanSpec.           *)
(***************************************************************************)

\* the bins of the peaks held
Held(peaks) == {peaks[k].index : k \in 1..Len(peaks)}

\* a pass of the loop
ScanPass ==
    /\ calc.op = "scan"
    /\ calc'.op = "scan"
    /\ calc'.ret.i = calc.ret.i + 1

TopFive(out, scanned, peaks) ==
    /\ Len(peaks) = (IF Cardinality(scanned) < 5 THEN Cardinality(scanned)
                                                 ELSE 5)
    /\ Cardinality(Held(peaks)) = Len(peaks)
    /\ Held(peaks) \subseteq scanned
    /\ \A k \in 1..Len(peaks) :
          /\ peaks[k].magnitude = Magnitude(out[peaks[k].index])
          /\ \A j \in scanned \ Held(peaks) :
                Magnitude(out[j]) <= peaks[k].magnitude

\* C32 as stated: there are bin magnitudes for which the list retained
\* after the scan differs from the five largest-magnitude scanned bins.
C32_ApproximateTopFive_AsStated ==
    calc.op = "none" =>
        \E out \in ScanSpectra \cup DistinctSpectra :
            \E peaks \in PeaksAtEnd(out, 1, {<<>>}) :
                ~TopFive(out, 1..(ScanSize \div 2 - 1), peaks)

\* C32: the peak list is an exact top-5 by magnitude: after every pass it
\* holds five peaks of largest magnitude among the bins scanned so far (all
\* of them while fewer than five were scanned); only which of several bins
\* of equal magnitude are held is left open.
C32_ExactTopFive ==
    calc.op = "scan" =>
        TopFive(calc.arg, 1..(calc.ret.i - 1), calc.ret.peaks)

\* the scan has ended with a strong bin admitted late: when it came, five
\* weaker peaks were held, and a weaker bin is no longer held
C32_Witness ==
    /\ calc.op = "scan"
    /\ calc.ret.i = ScanSize \div 2
    /\ \E k \in 1..Len(calc.ret.peaks) :
          /\ calc.ret.peaks[k].index = MaxBins
          /\ k < Len(calc.ret.peaks)
    /\ \E j \in 1..(MaxBins - 1) :
          /\ j \notin Held(calc.ret.peaks)
          /\ Magnitude(calc.arg[j]) > 0


\* the loop has ended
ScanEnded == calc.op = "scan" /\ ~InScan(calc.ret.i, ScanSize)

\* best is the dominant bin of the bins in scanned: a bin of them of
\* largest magnitude, or index 0 with magnitude 0 if none of them is above 0
DominantOf(out, scanned, best) ==
    /\ \A j \in scanned : Magnitude(out[j]) <= best.maxMagnitude
    /\ IF \E j \in scanned : Magnitude(out[j]) > 0
       THEN /\ best.maxIndex \in scanned
            /\ best.maxMagnitude = Magnitude(out[best.maxIndex])
       ELSE best = [maxMagnitude |-> 0, maxIndex |-> 0]

\* C33 as stated: every bin i with 1 <= i <= n/2 is a candidate for the
\* dominant bin and for the peak list.
C33_ScanThroughNyquist_AsStated ==
    ScanEnded =>
        /\ DominantOf(calc.arg, 1..(ScanSize \div 2), calc.ret.best)
        /\ TopFive(calc.arg, 1..(ScanSize \div 2), calc.ret.peaks)

\* C33: the scan skips bin 0 and examines every bin below the Nyquist
\* index: the bins i with 1 <= i < n/2, and no others, are candidates for
\* the dominant bin and for the peak list; the loop ends at i = n/2.
C33_ScanBelowNyquist ==
    /\ calc.op = "scan" => calc.ret.i \in 1..(ScanSize \div 2)
    /\ ScanEnded =>
        /\ DominantOf(calc.arg, 1..(ScanSize \div 2 - 1), calc.ret.best)
        /\ TopFive(calc.arg, 1..(ScanSize \div 2 - 1), calc.ret.peaks)

\* the scan has ended with a dominant bin that is weaker than the bins 0
\* and n/2, neither of which is held as a peak
C33_Witness ==
    /\ ScanEnded
    /\ calc.ret.best.maxMagnitude > 0
    /\ Magnitude(calc.arg[ScanSize \div 2]) > calc.ret.best.maxMagnitude
    /\ Magnitude(calc.arg[0]) > calc.ret.best.maxMagnitude
    /\ Held(calc.ret.peaks) = 2..MaxBins


(***************************************************************************)
(* Properties of the shot history, checked under ShotSpec.                 *)
(***************************************************************************)

\* no thread is inside the measurement callback
NoCallbackRunning ==
    \A t \in Pipelines : thr[t].pc \notin {"cb_push", "cb_count"}

\* C34: the shot history is append-only and grows by one entry per delivered
\* measurement: whenever the callbacks begun have completed, overlapping
\* pipelines included, its length equals the number of callbacks delivered
\* and equals shotCount, and no step changes or removes an earlier entry.
C34_ShotHistoryAppendOnly ==
    /\ [](NoCallbackRunning =>
            /\ Len(shotHistory) = invoked
            /\ Len(shotHistory) = shotCount)
    /\ [][/\ Len(shotHistory') >= Len(shotHistory)
          /\ SubSeq(shotHistory', 1, Len(shotHistory)) = shotHistory]_vars


(***************************************************************************)
(* Properties of two RadarManager instances, checked under InstancesSpec.  *)
(***************************************************************************)

\* C35: mutual exclusion over the transform buffers holds process-wide: at
\* no time are two processSamples() calls inside the part that works on the
\* shared buffers, also when they are made on two RadarManager instances,
\* and each call transforms and scans its own data.
C35_ExclusionAcrossInstances ==
    /\ Cardinality({t \in Pipelines : InTransform(t)})
          + (IF TestInTransform THEN 1 ELSE 0) <= 1
    /\ \A t \in Pipelines : thr[t].pc = "scan" => outData = thr[t].id
    /\ mainPc = "tps_scan" => outData = MainTag


(***************************************************************************)
(* Properties of single-flight use, checked under SingleFlightSpec.        *)
(***************************************************************************)

\* startMeasurement() has stored the flag and not yet returned, or a
\* background pipeline exists that has not run to its end
MeasurementUnderWay ==
    mainPc = "start_spawn" \/ \E t \in Pipelines : Running(t)

\* C36: under single-flight use the in-progress flag is true exactly from
\* the store in startMeasurement() until the pipeline of that call has
\* cleared it after its callback, and false in every other state: while
\* the flag is false no background pipeline is running.
C36_FlagTracksSinglePipeline ==
    /\ measurement_in_progress <=> MeasurementUnderWay
    /\ ~measurement_in_progress => \A t \in Pipelines : ~Running(t)
    /\ \A t \in Pipelines :
         thr[t].pc \in {"read", "lock", "check", "dc", "exec", "scan",
                        "deliver", "clear"} => measurement_in_progress

\* the second measurement has delivered its callback and ended: the flag
\* is false again and no pipeline is running
C36_Witness ==
    /\ started >= 2
    /\ ~measurement_in_progress
    /\ \E t \in Pipelines :
         thr[t].pc = "done" /\ thr[t].id = started /\ thr[t].delivered


(***************************************************************************)
(* Properties of one measurement and cleanup(), checked under RadarSpec.   *)
(***************************************************************************)

\* the thread may still invoke the measurement callback
CallbackAhead(t) ==
    thr[t].pc \in {"read", "lock", "check", "dc", "exec", "scan", "deliver"}

\* cleanup() has read the flag as false and has not yet returned
CleanupPastWait ==
    mainPc \in {"cleanup_lock", "cleanup_free", "cleanup_return"}

\* C37: with a single measurement started, the callback is invoked and
\* returns while the flag is still true and the flag is cleared only by the
\* thread that is past its callback; so once cleanup() has read the flag
\* as false no thread has the callback ahead of it, and none has while or
\* after cleanup() frees the resources.
C37_CallbackBeforeFlagCleared ==
    /\ [](started = 1 /\ ~measurement_in_progress
             => \A t \in Pipelines : ~CallbackAhead(t))
    /\ [](started = 1 /\ CleanupPastWait
             => \A t \in Pipelines : ~Running(t))
    /\ [][started = 1 /\ invoked' = invoked + 1
             => measurement_in_progress /\ measurement_in_progress']_vars
    /\ [][started = 1 /\ measurement_in_progress
                      /\ ~measurement_in_progress'
             => \E t \in Pipelines :
                   /\ thr[t].pc = "clear" /\ thr'[t].pc = "done"
                   /\ ~CallbackAhead(t)]_vars

\* cleanup() has freed the resources after the one measurement, whose
\* callback had received a result
C37_Witness ==
    /\ started = 1 /\ invoked = 1
    /\ mainPc = "cleanup_return"
    /\ ~fftw_initialized /\ fftw_in = "null"
    /\ \E t \in Pipelines :
         /\ thr[t].pc = "done" /\ thr[t].delivered
         /\ thr[t].result = "value"


(***************************************************************************)
(* Properties of the initialised marker, checked under RadarSpec.          *)
(***************************************************************************)

\* the three handles all point to live allocations
HandlesLive ==
    fftw_in = "live" /\ fftw_out = "live" /\ fftw_plan_r2c = "live"

\* the three handles are all nullptr
HandlesNull ==
    fftw_in = "null" /\ fftw_out = "null" /\ fftw_plan_r2c = "null"

\* whenever fftw_initialized is true the buffers and the plan are allocated
\* and not freed
MarkerImpliesLive == fftw_initialized => HandlesLive

\* a processSamples() call works on the buffers only with the marker true
\* and the three handles non-null
TransformNeedsResources ==
    (TestInTransform \/ mainPc \in {"ps_dc", "ps_exec", "ps_scan"}
        \/ \E t \in Pipelines : InTransform(t))
    => /\ fftw_initialized
       /\ fftw_in # "null" /\ fftw_out # "null" /\ fftw_plan_r2c # "null"

\* C38: in every state of one RadarManager fftw_initialized true implies
\* that the input buffer, the output buffer and the plan are allocated and
\* not freed; when cleanup() returns fftw_initialized is false and the
\* three handles are null; processSamples() is in its transform steps only
\* with the marker true and the three handles non-null.
C38_MarkerImpliesValidResources ==
    /\ []MarkerImpliesLive
    /\ []TransformNeedsResources
    /\ [][mainPc = "cleanup_return" /\ mainPc' = "idle"
             => ~fftw_initialized' /\ HandlesNull']_vars


(***************************************************************************)
(* Properties of the restarted cooldown, checked under TriggerSpec.        *)
(***************************************************************************)

\* C39: simulateTrigger() called at time t in any state, COOLDOWN of an
\* earlier trigger included, sets the state to TRIGGERED and the trigger
\* timestamp to t; the state returns to IDLE only by an update() in
\* COOLDOWN at least 500 ms after the timestamp, never from TRIGGERED, so
\* not before t + 500 ms and not with fewer than two update() calls.
C39_SimulateRestartsCooldown ==
    /\ [][simulateTrigger
             => lastTriggerTime' = now /\ state' = "TRIGGERED"]_vars
    /\ [][state # "IDLE" /\ state' = "IDLE"
             => /\ state = "COOLDOWN"
                /\ now - lastTriggerTime >= cooldownPeriod
                /\ \E v \in GpioValues : update(v)]_vars
    /\ [][state = "TRIGGERED" /\ state' # "TRIGGERED"
             => state' = "COOLDOWN" /\ \E v \in GpioValues : update(v)]_vars
    /\ [][state # "IDLE" /\ lastTriggerTime' # lastTriggerTime
             => simulateTrigger]_vars
    /\ [](state = "IDLE" /\ (simUsed \/ fired > 0)
             => now - lastTriggerTime >= cooldownPeriod)
    /\ [](state = "IDLE" /\ triggerCallback /\ fired > 0
             => updatesSinceCb >= 2)

\* simulateTrigger() was called during the cooldown of an earlier trigger
\* (two callbacks less than 500 ms apart) and the state is IDLE again
C39_Witness ==
    /\ simUsed
    /\ state = "IDLE"
    /\ Len(cbLog) = 2
    /\ cbLog[2] = lastTriggerTime
    /\ cbLog[2] - cbLog[1] < cooldownPeriod
    /\ cbLog[2] > cbLog[1]


(***************************************************************************)
(* Properties of the silent spectrum, checked under CalcSpec.              *)
(***************************************************************************)

\* every scanned bin of out has magnitude zero
Silent(out) == \A i \in Scanned : Magnitude(out[i]) = 0

\* C40: for an input of the initialised size whose scanned bins all have
\* magnitude zero, processSamples() selects no bin: the dominant index
\* stays 0 and the result has speed 0 and signal strength 0, whatever the
\* bins 0 and n/2 hold; when some scanned bin has a positive magnitude the
\* dominant index is a scanned bin of positive magnitude, never bin 0.
C40_SilentSpectrumSelectsNoBin ==
    calc.op = "processSamples"
    => LET best == DominantBin(calc.arg, DEFAULT_SAMPLE_COUNT)
       IN  IF Silent(calc.arg)
           THEN /\ best.maxIndex = 0
                /\ best.maxMagnitude = 0
                /\ calc.ret.speedMPS = FloatZero
                /\ calc.ret.speedMPH = FloatZero
                /\ calc.ret.signalStrength = FloatZero
           ELSE /\ best.maxIndex # 0
                /\ best.maxIndex \in Scanned
                /\ Magnitude(calc.arg[best.maxIndex]) > 0
                /\ calc.ret.signalStrength # FloatZero

\* a result was made from a spectrum that is zero at every scanned bin and
\* not at the bins 0 and n/2
C40_Witness ==
    /\ calc.op = "processSamples"
    /\ Silent(calc.arg)
    /\ Magnitude(calc.arg[0]) = 13
    /\ Magnitude(calc.arg[DEFAULT_SAMPLE_COUNT \div 2]) = 13
    /\ calc.ret.speedMPH = FloatZero

====
